---- MODULE Spec2Model ----
(***************************************************************************)
(* Keyword grouper: the classification cache of db_utils.py (one SQLite    *)
(* table keyed by keyword, language and the SHA-256 of the prompt          *)
(* template) and the keyword processing loop of app.py that fronts the     *)
(* model call with that cache.                                             *)
(*                                                                         *)
(* Text is a sequence of atoms; an atom is a run of characters, and the    *)
(* atoms of Whitespace are the ones str.strip() removes at either end.     *)
(* Python values are tagged records: [t |-> "str", v |-> text],            *)
(* [t |-> "none"], [t |-> "list"], [t |-> "dict", d |-> key -> value].     *)
(***************************************************************************)
EXTENDS Integers, Sequences, FiniteSets, TLC

(***************************************************************************)
(* hashlib.sha256 (FIPS 180-4).  A 32-bit word is the pair <<hi, lo>> of   *)
(* its 16-bit halves, so that no intermediate value leaves the 32-bit      *)
(* signed range.                                                           *)
(***************************************************************************)
Pow2 == <<1, 2, 4, 8, 16, 32, 64, 128, 256, 512, 1024, 2048, 4096, 8192, 16384, 32768, 65536>>

Bit(x, i) == (x \div Pow2[i + 1]) % 2

Xor16(x, y) ==
  LET b(i) == (Bit(x, i) + Bit(y, i)) % 2
  IN  b(0) + 2 * b(1) + 4 * b(2) + 8 * b(3) + 16 * b(4) + 32 * b(5) + 64 * b(6)
      + 128 * b(7) + 256 * b(8) + 512 * b(9) + 1024 * b(10) + 2048 * b(11)
      + 4096 * b(12) + 8192 * b(13) + 16384 * b(14) + 32768 * b(15)

And16(x, y) ==
  LET b(i) == Bit(x, i) * Bit(y, i)
  IN  b(0) + 2 * b(1) + 4 * b(2) + 8 * b(3) + 16 * b(4) + 32 * b(5) + 64 * b(6)
      + 128 * b(7) + 256 * b(8) + 512 * b(9) + 1024 * b(10) + 2048 * b(11)
      + 4096 * b(12) + 8192 * b(13) + 16384 * b(14) + 32768 * b(15)

XorW(a, b) == <<Xor16(a[1], b[1]), Xor16(a[2], b[2])>>
AndW(a, b) == <<And16(a[1], b[1]), And16(a[2], b[2])>>
NotW(a) == <<65535 - a[1], 65535 - a[2]>>

\* rotate right by n, 0 <= n < 32
RotR(a, n) ==
  LET hi == IF n < 16 THEN a[1] ELSE a[2]
      lo == IF n < 16 THEN a[2] ELSE a[1]
      m == n % 16
  IN  <<(hi \div Pow2[m + 1]) + (lo % Pow2[m + 1]) * Pow2[17 - m],
        (lo \div Pow2[m + 1]) + (hi % Pow2[m + 1]) * Pow2[17 - m]>>

\* shift right by n, 0 <= n < 16
ShR(a, n) ==
  <<a[1] \div Pow2[n + 1],
    (a[2] \div Pow2[n + 1]) + (a[1] % Pow2[n + 1]) * Pow2[17 - n]>>

RECURSIVE SumHalf(_, _)
SumHalf(ws, h) == IF ws = <<>> THEN 0 ELSE Head(ws)[h] + SumHalf(Tail(ws), h)

\* the sum of the words ws modulo 2^32
AddW(ws) ==
  LET lo == SumHalf(ws, 2)
      hi == SumHalf(ws, 1) + (lo \div 65536)
  IN  <<hi % 65536, lo % 65536>>

SHA256_K ==
  <<
    <<17034, 12184>>, <<28983, 17553>>, <<46528, 64463>>, <<59829, 56229>>,
    <<14678, 49755>>, <<23025, 4593>>, <<37439, 33444>>, <<43804, 24277>>,
    <<55303, 43672>>, <<4739, 23297>>, <<9265, 34238>>, <<21772, 32195>>,
    <<29374, 23924>>, <<32990, 45566>>, <<39900, 1703>>, <<49563, 61812>>,
    <<58523, 27073>>, <<61374, 18310>>, <<4033, 40390>>, <<9228, 41420>>,
    <<11753, 11375>>, <<19060, 33962>>, <<23728, 43484>>, <<30457, 35034>>,
    <<38974, 20818>>, <<43057, 50797>>, <<45059, 10184>>, <<48985, 32711>>,
    <<50912, 3059>>, <<54695, 37191>>, <<1738, 25425>>, <<5161, 10599>>,
    <<10167, 2693>>, <<11803, 8504>>, <<19756, 28156>>, <<21304, 3347>>,
    <<25866, 29524>>, <<30314, 2747>>, <<33218, 51502>>, <<37490, 11397>>,
    <<41663, 59553>>, <<43034, 26187>>, <<49739, 35696>>, <<51052, 20899>>,
    <<53650, 59417>>, <<54937, 1572>>, <<62478, 13701>>, <<4202, 41072>>,
    <<6564, 49430>>, <<7735, 27656>>, <<10056, 30540>>, <<13488, 48309>>,
    <<14620, 3251>>, <<20184, 43594>>, <<23452, 51791>>, <<26670, 28659>>,
    <<29839, 33518>>, <<30885, 25455>>, <<33992, 30740>>, <<36039, 520>>,
    <<37054, 65530>>, <<42064, 27883>>, <<48889, 41975>>, <<50801, 30962>>
  >>

SHA256_H0 ==
  <<
    <<27145, 58983>>, <<47975, 44677>>, <<15470, 62322>>, <<42319, 62778>>,
    <<20750, 21119>>, <<39685, 26764>>, <<8067, 55723>>, <<23520, 52505>>
  >>

SmallSigma0(x) == XorW(XorW(RotR(x, 7), RotR(x, 18)), ShR(x, 3))
SmallSigma1(x) == XorW(XorW(RotR(x, 17), RotR(x, 19)), ShR(x, 10))
BigSigma0(x) == XorW(XorW(RotR(x, 2), RotR(x, 13)), RotR(x, 22))
BigSigma1(x) == XorW(XorW(RotR(x, 6), RotR(x, 11)), RotR(x, 25))
Ch(x, y, z) == XorW(AndW(x, y), AndW(NotW(x), z))
Maj(x, y, z) == XorW(XorW(AndW(x, y), AndW(x, z)), AndW(y, z))

\* the message padded to a multiple of 64 bytes: 0x80, zeros, the bit length
\* as a 64-bit big-endian integer
Sha256Pad(bytes) ==
  LET n == Len(bytes)
      zeros == (119 - (n % 64)) % 64
      bits == 8 * n
  IN  bytes \o <<128>> \o [j \in 1..zeros |-> 0]
      \o <<0, 0, 0, 0, (bits \div 16777216) % 256, (bits \div 65536) % 256,
           (bits \div 256) % 256, bits % 256>>

\* the 16 message words of block blk (from 0) of the padded message
BlockWords(padded, blk) ==
  [t \in 1..16 |->
     LET o == 64 * blk + 4 * (t - 1)
     IN  <<256 * padded[o + 1] + padded[o + 2], 256 * padded[o + 3] + padded[o + 4]>>]

RECURSIVE Schedule(_)
Schedule(w) ==
  IF Len(w) = 64 THEN w
  ELSE LET t == Len(w) + 1
       IN  Schedule(Append(w, AddW(<<SmallSigma1(w[t - 2]), w[t - 7],
                                     SmallSigma0(w[t - 15]), w[t - 16]>>)))

\* the 64 rounds over the working variables s = <<a, b, c, d, e, f, g, h>>
\* (taking Len(s) evaluates the eight words of a round before the next begins)
RECURSIVE Rounds(_, _, _)
Rounds(s, w, t) ==
  IF t > 64 \/ Len(s) # 8 THEN s
  ELSE LET t1 == AddW(<<s[8], BigSigma1(s[5]), Ch(s[5], s[6], s[7]), SHA256_K[t], w[t]>>)
           t2 == AddW(<<BigSigma0(s[1]), Maj(s[1], s[2], s[3])>>)
       IN  Rounds(<<AddW(<<t1, t2>>), s[1], s[2], s[3], AddW(<<s[4], t1>>), s[5], s[6], s[7]>>,
                  w, t + 1)

RECURSIVE Compress(_, _, _)
Compress(h, padded, blk) ==
  IF 64 * blk >= Len(padded) THEN h
  ELSE LET s == Rounds(h, Schedule(BlockWords(padded, blk)), 1)
       IN  Compress([j \in 1..8 |-> AddW(<<h[j], s[j]>>)], padded, blk + 1)

HexChars == <<"0", "1", "2", "3", "4", "5", "6", "7", "8", "9", "a", "b", "c", "d", "e", "f">>

\* hashlib.sha256(bytes).hexdigest(): 64 lower-case hexadecimal characters
Sha256Hex(bytes) ==
  LET h == Compress(SHA256_H0, Sha256Pad(bytes), 0)
  IN  [c \in 1..64 |->
         LET w == h[((c - 1) \div 8) + 1]
             n == (c - 1) % 8
             half == IF n < 4 THEN w[1] ELSE w[2]
         IN  HexChars[((half \div Pow2[13 - 4 * (n % 4)]) % 16) + 1]]

(***************************************************************************)
(* Text and Python values                                                  *)
(***************************************************************************)
Whitespace == {" ", "\t", "\n"}

None == [t |-> "none"]
PyText(s) == [t |-> "str", v |-> s]

\* str.strip(): drop the whitespace atoms at both ends
Strip(s) ==
  LET keep == {j \in 1..Len(s) : s[j] \notin Whitespace}
  IN  IF keep = {} THEN <<>>
      ELSE SubSeq(s, CHOOSE j \in keep : \A m \in keep : j <= m,
                     CHOOSE j \in keep : \A m \in keep : j >= m)

\* str(value)
PyStr(value) ==
  CASE value.t = "str" -> value.v
    [] value.t = "none" -> <<"None">>
    [] value.t = "list" -> <<"[]">>

\* the UTF-8 bytes of the characters a prompt template is written in
\* ("E9" is the character U+00E9, two bytes in UTF-8)
Utf8Bytes ==
  [c \in {"a", "E9"} |-> IF c = "a" THEN <<97>> ELSE <<195, 169>>]

\* mutant: encode('ascii', 'ignore'), characters outside ASCII are dropped
RECURSIVE Utf8Encode_IgnoreNonAscii(_)
Utf8Encode_IgnoreNonAscii(text) ==
  IF text = <<>> THEN <<>>
  ELSE (IF Len(Utf8Bytes[Head(text)]) = 1 THEN Utf8Bytes[Head(text)] ELSE <<>>)
       \o Utf8Encode_IgnoreNonAscii(Tail(text))

RECURSIVE Utf8Encode(_)
Utf8Encode(text) ==
  IF text = <<>> THEN <<>> ELSE Utf8Bytes[Head(text)] \o Utf8Encode(Tail(text))

get_prompt_hash(prompt_text) == Sha256Hex(Utf8Encode(prompt_text))

(***************************************************************************)
(* Bounds and input sets                                                   *)
(***************************************************************************)
MaxTime == 1          \* the clock stops advancing here
MaxRows == 2          \* rows the table holds at most
MaxRuns == 2          \* processing runs started by one process
MaxKeywords == 3      \* keywords in the batch of a single-batch behaviour
MaxRunKeywords == 1   \* keywords in one run of a behaviour of several runs
MaxTemplateLen == 2   \* characters in a template of the fingerprint check
MaxExtraLines == 2    \* unique keywords an input has beyond the paste limit
PasteLimit == 250     \* app.py line 142

Procs == {1, 2}
llm_options == {"OpenAI", "Gemini", "Claude", "Mistral"}
PromptTemplates == {<<"a">>, <<"a", "E9">>}

RECURSIVE TextsUpTo(_)
TextsUpTo(n) ==
  IF n = 0 THEN {<<>>}
  ELSE LET shorter == TextsUpTo(n - 1)
       IN  shorter \cup {Append(t, c) : t \in {u \in shorter : Len(u) = n - 1},
                                        c \in DOMAIN Utf8Bytes}

RequiredKeys == {"main_cat", "sub_cat_1", "sub_cat_2", "semantic_theme"}

\* values a cache client or a model response carries in a field
RawValues ==
  {PyText(<<"Shoes">>), PyText(<<" ", "Shoes", "\n">>), PyText(<<>>), PyText(<<" ", "\t">>), None}

VARIABLES
  digest,      \* hashlib.sha256 memoised over the templates in use: template -> hexdigest
  db_exists,   \* the table keyword_groups exists in the database file
  db,          \* the rows of keyword_groups, in rowid order
  db_up,       \* sqlite3 can open and use the database file
  now,         \* datetime.now(), in seconds
  api,         \* the last direct call of the cache API and what its caller saw
  inserted,    \* history: the arguments of every insert that was committed
  pc,          \* per process: position of the Streamlit script
  session,     \* per process: st.session_state
  run,         \* per process: the locals of the processing block of app.py
  calls,       \* history, per process: the cache and model calls of the current run
  prev,        \* history, per process: inputs and results of the run before
  nruns,       \* history, per process: runs started
  input        \* per process: the input widgets and what the script made of them

vars == <<digest, db_exists, db, db_up, now, api, inserted,
          pc, session, run, calls, prev, nruns, input>>

cacheVars == <<db_exists, db, db_up, now, api, inserted>>
procVars == <<pc, session, run, calls, prev, nruns>>

(***************************************************************************)
(* db_utils.py                                                             *)
(***************************************************************************)
\* the UNIQUE(keyword, language, prompt_hash) constraint of the table
SameKey(row, keyword, language, prompt_hash) ==
  /\ row.keyword = keyword
  /\ row.language = language
  /\ row.prompt_hash = prompt_hash

\* mutant: the table without its UNIQUE constraint
ExecuteInsert_NoUnique(rows, keyword, language, prompt_hash, main_cat, sub_cat_1, sub_cat_2, semantic_theme, date_added) ==
  IF \E value \in {main_cat, sub_cat_1, sub_cat_2, semantic_theme} : value.t = "none"
  THEN [rows |-> rows, error |-> "IntegrityError"]
  ELSE [rows |-> Append(rows, [id |-> Len(rows) + 1, keyword |-> keyword,
                               language |-> language, prompt_hash |-> prompt_hash,
                               main_cat |-> main_cat.v, sub_cat_1 |-> sub_cat_1.v,
                               sub_cat_2 |-> sub_cat_2.v,
                               semantic_theme |-> semantic_theme.v,
                               date_added |-> date_added]),
        error |-> "none"]

\* mutant: INSERT OR REPLACE, the row with the key is rewritten in place
ExecuteInsert_Replace(rows, keyword, language, prompt_hash, main_cat, sub_cat_1, sub_cat_2, semantic_theme, date_added) ==
  IF \E value \in {main_cat, sub_cat_1, sub_cat_2, semantic_theme} : value.t = "none"
  THEN [rows |-> rows, error |-> "IntegrityError"]
  ELSE LET new(id) == [id |-> id, keyword |-> keyword,
                       language |-> language, prompt_hash |-> prompt_hash,
                       main_cat |-> main_cat.v, sub_cat_1 |-> sub_cat_1.v,
                       sub_cat_2 |-> sub_cat_2.v, semantic_theme |-> semantic_theme.v,
                       date_added |-> date_added]
       IN  IF \E j \in 1..Len(rows) : SameKey(rows[j], keyword, language, prompt_hash)
           THEN [rows |-> [j \in 1..Len(rows) |->
                             IF SameKey(rows[j], keyword, language, prompt_hash)
                             THEN new(rows[j].id) ELSE rows[j]],
                 error |-> "none"]
           ELSE [rows |-> Append(rows, new(Len(rows) + 1)), error |-> "none"]

\* sqlite's INSERT INTO keyword_groups: the NOT NULL columns and the UNIQUE
\* constraint raise IntegrityError; otherwise the row gets the next rowid
ExecuteInsert(rows, keyword, language, prompt_hash, main_cat, sub_cat_1, sub_cat_2, semantic_theme, date_added) ==
  IF \/ \E value \in {main_cat, sub_cat_1, sub_cat_2, semantic_theme} : value.t = "none"
     \/ \E j \in 1..Len(rows) : SameKey(rows[j], keyword, language, prompt_hash)
  THEN [rows |-> rows, error |-> "IntegrityError"]
  ELSE [rows |-> Append(rows, [id |-> Len(rows) + 1, keyword |-> keyword,
                               language |-> language, prompt_hash |-> prompt_hash,
                               main_cat |-> main_cat.v, sub_cat_1 |-> sub_cat_1.v,
                               sub_cat_2 |-> sub_cat_2.v,
                               semantic_theme |-> semantic_theme.v,
                               date_added |-> date_added]),
        error |-> "none"]

\* mutant: the IntegrityError of a duplicate is not caught
add_keyword_grouping_Raises(rows, up, clock, keyword, language, prompt_text, main_cat, sub_cat_1, sub_cat_2, semantic_theme) ==
  IF ~up THEN [rows |-> rows, raised |-> "OperationalError", ret |-> None, warned |-> FALSE]
  ELSE LET ins == ExecuteInsert(rows, keyword, language, digest[prompt_text], main_cat,
                                sub_cat_1, sub_cat_2, semantic_theme, clock)
       IN  [rows |-> ins.rows, raised |-> ins.error, ret |-> None, warned |-> FALSE]

\* mutant: the insert is never committed
add_keyword_grouping_NoCommit(rows, up, clock, keyword, language, prompt_text, main_cat, sub_cat_1, sub_cat_2, semantic_theme) ==
  IF ~up THEN [rows |-> rows, raised |-> "OperationalError", ret |-> None, warned |-> FALSE]
  ELSE LET ins == ExecuteInsert(rows, keyword, language, digest[prompt_text], main_cat,
                                sub_cat_1, sub_cat_2, semantic_theme, clock)
       IN  [rows |-> rows, raised |-> "none", ret |-> None,
            warned |-> (ins.error = "IntegrityError")]

\* add_keyword_grouping: what it leaves in the table, what it raises to its
\* caller ("none": it returns, and what it returns is None), what it prints
add_keyword_grouping(rows, up, clock, keyword, language, prompt_text, main_cat, sub_cat_1, sub_cat_2, semantic_theme) ==
  IF ~up THEN [rows |-> rows, raised |-> "OperationalError", ret |-> None, warned |-> FALSE]
  ELSE LET ins == ExecuteInsert(rows, keyword, language, digest[prompt_text], main_cat,
                                sub_cat_1, sub_cat_2, semantic_theme, clock)
       IN  [rows |-> ins.rows, raised |-> "none", ret |-> None,
            warned |-> (ins.error = "IntegrityError")]

\* mutant: the query leaves prompt_hash out of its WHERE clause
get_existing_grouping_AnyPrompt(rows, up, keyword, language, prompt_text) ==
  IF ~up THEN [raised |-> "OperationalError", ret |-> None]
  ELSE LET hits == {j \in 1..Len(rows) :
                      rows[j].keyword = keyword /\ rows[j].language = language}
       IN  IF hits = {} THEN [raised |-> "none", ret |-> None]
           ELSE LET row == rows[CHOOSE j \in hits : \A m \in hits : j <= m]
                IN  [raised |-> "none",
                     ret |-> [t |-> "dict",
                              d |-> [main_cat |-> row.main_cat, sub_cat_1 |-> row.sub_cat_1,
                                     sub_cat_2 |-> row.sub_cat_2,
                                     semantic_theme |-> row.semantic_theme]]]

\* mutant: the query binds its parameters in the wrong order
get_existing_grouping_WrongOrder(rows, up, keyword, language, prompt_text) ==
  IF ~up THEN [raised |-> "OperationalError", ret |-> None]
  ELSE LET hits == {j \in 1..Len(rows) :
                      SameKey(rows[j], language, keyword, digest[prompt_text])}
       IN  IF hits = {} THEN [raised |-> "none", ret |-> None]
           ELSE LET row == rows[CHOOSE j \in hits : \A m \in hits : j <= m]
                IN  [raised |-> "none",
                     ret |-> [t |-> "dict",
                              d |-> [main_cat |-> row.main_cat, sub_cat_1 |-> row.sub_cat_1,
                                     sub_cat_2 |-> row.sub_cat_2,
                                     semantic_theme |-> row.semantic_theme]]]

\* get_existing_grouping: the four fields of the first row with the key, or None
get_existing_grouping(rows, up, keyword, language, prompt_text) ==
  IF ~up THEN [raised |-> "OperationalError", ret |-> None]
  ELSE LET hits == {j \in 1..Len(rows) :
                      SameKey(rows[j], keyword, language, digest[prompt_text])}
       IN  IF hits = {} THEN [raised |-> "none", ret |-> None]
           ELSE LET row == rows[CHOOSE j \in hits : \A m \in hits : j <= m]
                IN  [raised |-> "none",
                     ret |-> [t |-> "dict",
                              d |-> [main_cat |-> row.main_cat, sub_cat_1 |-> row.sub_cat_1,
                                     sub_cat_2 |-> row.sub_cat_2,
                                     semantic_theme |-> row.semantic_theme]]]

\* mutant: CREATE TABLE without IF NOT EXISTS
init_db_NoGuard(exists, up) ==
  IF ~up \/ exists THEN [exists |-> exists, raised |-> "OperationalError"]
  ELSE [exists |-> TRUE, raised |-> "none"]

\* init_db: CREATE TABLE IF NOT EXISTS
init_db(exists, up) ==
  IF ~up THEN [exists |-> exists, raised |-> "OperationalError"]
  ELSE [exists |-> TRUE, raised |-> "none"]

\* the columns get_all_data selects
Selected(row) ==
  [main_cat |-> row.main_cat, sub_cat_1 |-> row.sub_cat_1, sub_cat_2 |-> row.sub_cat_2,
   keyword |-> row.keyword, language |-> row.language,
   semantic_theme |-> row.semantic_theme, date_added |-> row.date_added]

\* mutant: ORDER BY date_added ASC
DateDescOrders_Asc(rows) ==
  {o \in Permutations(1..Len(rows)) :
     \A a, b \in 1..Len(rows) : a < b => rows[o[a]].date_added <= rows[o[b]].date_added}

\* the orders ORDER BY date_added DESC may return the rows in: SQLite leaves
\* the order of rows with equal date_added unspecified
DateDescOrders(rows) ==
  {o \in Permutations(1..Len(rows)) :
     \A a, b \in 1..Len(rows) : a < b => rows[o[a]].date_added >= rows[o[b]].date_added}

(***************************************************************************)
(* utils.py                                                                *)
(***************************************************************************)
\* list(dict.fromkeys(keywords)): the first occurrence of each, in order
FromKeys(keywords) ==
  LET indexed == [j \in 1..Len(keywords) |-> <<j, keywords[j]>>]
      firsts == SelectSeq(indexed, LAMBDA e : \A m \in 1..(e[1] - 1) : keywords[m] # e[2])
  IN  [j \in 1..Len(firsts) |-> firsts[j][2]]

\* [kw.strip() for kw in ... if kw.strip()]
StrippedNonEmpty(texts) ==
  SelectSeq([j \in 1..Len(texts) |-> Strip(texts[j])], LAMBDA t : t # <<>>)

\* the column of the frame the keywords are read from: the one named
\* 'keyword', else the first when the frame is not empty, else none (0)
KeywordColumn(df) ==
  LET named == {c \in 1..Len(df.columns) : df.columns[c] = "keyword"}
  IN  IF named # {} THEN CHOOSE c \in named : \A m \in named : c <= m
      ELSE IF Len(df.columns) > 0 /\ Len(df.rows) > 0 THEN 1
      ELSE 0

\* df[...].dropna().astype(str).str.strip().tolist(), the empty ones removed
ColumnKeywords(df, c) ==
  LET cells == SelectSeq([j \in 1..Len(df.rows) |-> df.rows[j][c]], LAMBDA v : v.t # "none")
  IN  StrippedNonEmpty([j \in 1..Len(cells) |-> PyStr(cells[j])])

\* parse_keywords. An uploaded file is given by whether it decodes and parses
\* and by the frame pandas reads from it, a pasted text by its lines
parse_keywords(input_data, source_type) ==
  IF source_type = "csv" /\ input_data.t # "none"
  THEN IF ~input_data.decodes
       THEN [keywords |-> <<>>, error_message |-> PyText(<<"Cannot decode file">>)]
       ELSE IF ~input_data.parses
       THEN [keywords |-> <<>>, error_message |-> PyText(<<"Error reading or parsing CSV">>)]
       ELSE LET c == KeywordColumn(input_data.df)
            IN  [keywords |-> FromKeys(IF c = 0 THEN <<>> ELSE ColumnKeywords(input_data.df, c)),
                 error_message |-> None]
  ELSE IF source_type = "text" /\ input_data.t = "text" /\ input_data.lines # <<>>
  THEN [keywords |-> FromKeys(StrippedNonEmpty(input_data.lines)), error_message |-> None]
  ELSE [keywords |-> <<>>, error_message |-> None]

(***************************************************************************)
(* State                                                                   *)
(***************************************************************************)
NoRun ==
  [keywords_to_process |-> <<>>, selected_language |-> "English",
   custom_prompt |-> <<"a">>, selected_llm |-> "OpenAI", i |-> 0,
   total_keywords |-> 0, processed_count |-> 0, errors |-> 0, llm_calls |-> 0,
   cache_hits |-> 0, fields |-> <<>>]

\* lines 105-106: nothing uploaded or pasted yet
NoInput ==
  [input_method |-> "none", given |-> [family |-> "none"], keywords_to_process |-> <<>>,
   input_error |-> None]

InitWith(templates) ==
  /\ digest = [t \in templates |-> get_prompt_hash(t)]
  /\ db_exists = FALSE
  /\ db = <<>>
  /\ db_up = TRUE
  /\ now = 0
  /\ api = [op |-> "none", args |-> <<>>, raised |-> "none", ret |-> None, warned |-> FALSE]
  /\ inserted = {}
  /\ pc = [p \in Procs |-> "import"]
  /\ session = [p \in Procs |-> [processing |-> FALSE, results_is_none |-> TRUE,
                                 results |-> <<>>, error_message |-> None]]
  /\ run = [p \in Procs |-> NoRun]
  /\ calls = [p \in Procs |-> <<>>]
  /\ prev = [p \in Procs |-> [ran |-> FALSE]]
  /\ nruns = [p \in Procs |-> 0]
  /\ input = [p \in Procs |-> NoInput]

Init == InitWith(PromptTemplates)

(***************************************************************************)
(* Environment: the wall clock and the availability of the database file   *)
(***************************************************************************)
Tick ==
  /\ now < MaxTime
  /\ now' = now + 1
  /\ UNCHANGED <<digest, input, db_exists, db, db_up, api, inserted, procVars>>

StorageFails ==
  /\ db_up
  /\ db_up' = FALSE
  /\ UNCHANGED <<digest, input, db_exists, db, now, api, inserted, procVars>>

StorageRecovers ==
  /\ ~db_up
  /\ db_up' = TRUE
  /\ UNCHANGED <<digest, input, db_exists, db, now, api, inserted, procVars>>

(***************************************************************************)
(* A client calling the cache API directly                                 *)
(***************************************************************************)
\* the keys direct calls use: a base key and one key differing in each column
CacheKeys ==
  {<<"k1", "English", <<"a">>>>, <<"k2", "English", <<"a">>>>,
   <<"k1", "Dutch", <<"a">>>>, <<"k1", "English", <<"a", "E9">>>>}

StoreValues == {PyText(<<"Shoes">>), PyText(<<"Boots">>), None}

\* the stores direct calls make: every key with a classification and with a
\* missing value, and the base key with another classification as well
StoreInputs ==
  {in \in CacheKeys \X StoreValues :
     in[2] = PyText(<<"Boots">>) => in[1] = <<"k1", "English", <<"a">>>>}

InitDb ==
  LET r == init_db(db_exists, db_up)
  IN  /\ db_exists' = r.exists
      /\ api' = [op |-> "init_db", args |-> <<>>, raised |-> r.raised, ret |-> None,
                 warned |-> FALSE]
      /\ UNCHANGED <<digest, input, db, db_up, now, inserted, procVars>>

\* history: a row with this key is in the table
HasKey(rows, keyword, language, prompt_text) ==
  \E j \in 1..Len(rows) : SameKey(rows[j], keyword, language, digest[prompt_text])

Store(key, value) ==
  LET r == add_keyword_grouping(db, db_up, now, key[1], key[2], key[3],
                                value, value, value, value)
  IN  /\ db_exists
      /\ Len(r.rows) <= MaxRows
      /\ db' = r.rows
      /\ api' = [op |-> "store", existed |-> HasKey(db, key[1], key[2], key[3]),
                 args |-> [keyword |-> key[1], language |-> key[2], prompt_text |-> key[3],
                           main_cat |-> value, sub_cat_1 |-> value, sub_cat_2 |-> value,
                           semantic_theme |-> value],
                 raised |-> r.raised, ret |-> r.ret, warned |-> r.warned]
      /\ inserted' = IF r.rows # db
                     THEN inserted \cup {[keyword |-> key[1], language |-> key[2],
                                          prompt_text |-> key[3], row |-> r.rows[Len(r.rows)]]}
                     ELSE inserted
      /\ UNCHANGED <<digest, input, db_exists, db_up, now, procVars>>

\* mutant: a read-once cache, the lookup deletes the row it returns
Lookup_Evicting(key) ==
  LET r == get_existing_grouping(db, db_up, key[1], key[2], key[3])
  IN  /\ db_exists
      /\ api' = [op |-> "lookup", existed |-> HasKey(db, key[1], key[2], key[3]),
                 args |-> [keyword |-> key[1], language |-> key[2], prompt_text |-> key[3]],
                 raised |-> r.raised, ret |-> r.ret, warned |-> FALSE]
      /\ db' = IF r.raised = "none"
               THEN SelectSeq(db, LAMBDA row : ~SameKey(row, key[1], key[2], digest[key[3]]))
               ELSE db
      /\ UNCHANGED <<digest, input, db_exists, db_up, now, inserted, procVars>>

Lookup(key) ==
  LET r == get_existing_grouping(db, db_up, key[1], key[2], key[3])
  IN  /\ db_exists
      /\ api' = [op |-> "lookup", existed |-> HasKey(db, key[1], key[2], key[3]),
                 args |-> [keyword |-> key[1], language |-> key[2], prompt_text |-> key[3]],
                 raised |-> r.raised, ret |-> r.ret, warned |-> FALSE]
      /\ UNCHANGED <<digest, input, db_exists, db, db_up, now, inserted, procVars>>

\* history: rowids keeps the rowid of each row of the frame
ListAll ==
  /\ db_exists
  /\ IF ~db_up
     THEN api' = [op |-> "listAll", args |-> <<>>, raised |-> "OperationalError",
                  ret |-> None, warned |-> FALSE]
     ELSE \E o \in DateDescOrders(db) :
            api' = [op |-> "listAll", args |-> <<>>, raised |-> "none",
                    ret |-> [t |-> "frame", rows |-> [j \in 1..Len(db) |-> Selected(db[o[j]])]],
                    warned |-> FALSE, rowids |-> [j \in 1..Len(db) |-> db[o[j]].id]]
  /\ UNCHANGED <<digest, input, db_exists, db, db_up, now, inserted, procVars>>

CacheNext ==
  \/ Tick
  \/ StorageFails
  \/ StorageRecovers
  \/ InitDb
  \/ \E in \in StoreInputs : Store(in[1], in[2])
  \/ \E key \in CacheKeys : Lookup(key)
  \/ ListAll

\* the cache under arbitrary direct calls
SpecCache == Init /\ [][CacheNext]_vars

(***************************************************************************)
(* llm_utils.py: what get_llm_grouping hands back to the processing loop.  *)
(* The vendor's answer is outside the program: the call either raises or   *)
(* returns the parsed JSON (a dict, or something else), or None.           *)
(***************************************************************************)
NonEmptyList == [t |-> "list"]
PyDict(d) == [t |-> "dict", d |-> d]

\* a response with every required key, all carrying the same raw value
UniformDict(value) == PyDict([key \in RequiredKeys |-> value])

MixedDict ==
  PyDict([main_cat |-> PyText(<<"Shoes">>), sub_cat_1 |-> PyText(<<>>),
          sub_cat_2 |-> PyText(<<" ", "\t">>), semantic_theme |-> None])

ExtraKeyDict ==
  PyDict([key \in RequiredKeys \cup {"confidence"} |-> PyText(<<"Boots">>)])

\* responses that lack a required key, and the empty dict
PartialDicts ==
  {PyDict([key \in RequiredKeys \ {missing} |-> PyText(<<"Shoes">>)]) : missing \in RequiredKeys}
  \cup {PyDict([key \in {} |-> None])}

LLMResults ==
  {None, NonEmptyList, MixedDict, ExtraKeyDict} \cup PartialDicts
  \cup {UniformDict(value) : value \in RawValues}

get_llm_grouping_outcomes(results) ==
  {[raised |-> TRUE, ret |-> None]} \cup {[raised |-> FALSE, ret |-> r] : r \in results}

(***************************************************************************)
(* app.py: the processing block                                            *)
(***************************************************************************)
\* bool(value)
Truthy(value) ==
  CASE value.t = "none" -> FALSE
    [] value.t = "str" -> value.v # <<>>
    [] value.t = "list" -> TRUE
    [] value.t = "dict" -> DOMAIN value.d # {}

\* mutant: any non-empty mapping is accepted, its keys are not checked
ValidResponse_AnyDict(llm_result) ==
  Truthy(llm_result) /\ llm_result.t = "dict"

\* the condition of lines 225-227
ValidResponse(llm_result) ==
  /\ Truthy(llm_result)
  /\ llm_result.t = "dict"
  /\ "main_cat" \in DOMAIN llm_result.d
  /\ "sub_cat_1" \in DOMAIN llm_result.d
  /\ "sub_cat_2" \in DOMAIN llm_result.d
  /\ "semantic_theme" \in DOMAIN llm_result.d

\* mutant: str(...) or default, the strip() forgotten
Populated_NoStrip(llm_result, key, default) ==
  LET text == PyStr(IF key \in DOMAIN llm_result.d THEN llm_result.d[key]
                    ELSE PyText(default))
  IN  IF text = <<>> THEN default ELSE text

\* mutant: str(...).strip(), the default forgotten
Populated_NoDefault(llm_result, key, default) ==
  Strip(PyStr(IF key \in DOMAIN llm_result.d THEN llm_result.d[key] ELSE PyText(default)))

\* str(llm_result.get(key, default)).strip() or default
Populated(llm_result, key, default) ==
  LET text == Strip(PyStr(IF key \in DOMAIN llm_result.d THEN llm_result.d[key]
                          ELSE PyText(default)))
  IN  IF text = <<>> THEN default ELSE text

NormalizedFields(llm_result) ==
  [main_cat |-> Populated(llm_result, "main_cat", <<"Uncategorized">>),
   sub_cat_1 |-> Populated(llm_result, "sub_cat_1", <<"General">>),
   sub_cat_2 |-> Populated(llm_result, "sub_cat_2", <<"Detail">>),
   semantic_theme |-> Populated(llm_result, "semantic_theme", <<"N/A">>)]

\* parse_keywords hands over distinct keywords (dict.fromkeys): the sequences
\* of length 1..n over kws without a repetition
Distinct(l) == \A a, b \in 1..Len(l) : a # b => l[a] # l[b]

RECURSIVE KeywordLists(_, _)
KeywordLists(kws, n) ==
  IF n = 0 THEN {}
  ELSE IF n = 1 THEN {<<k>> : k \in kws}
  ELSE LET shorter == KeywordLists(kws, n - 1)
           longer == {Append(l, k) : l \in {m \in shorter : Len(m) = n - 1}, k \in kws}
       IN  shorter \cup {l \in longer : Distinct(l)}

CurrentKeyword(p) == run[p].keywords_to_process[run[p].i + 1]

\* a result row for the keyword in hand
ResultFor(p, fields) ==
  [keyword |-> CurrentKeyword(p), language |-> run[p].selected_language] @@ fields

\* mutant: only main_cat carries the marker
Sentinel_MainOnly(marker, theme) ==
  [main_cat |-> <<marker>>, sub_cat_1 |-> <<"N/A">>, sub_cat_2 |-> <<"N/A">>,
   semantic_theme |-> theme]

Sentinel(marker, theme) ==
  [main_cat |-> <<marker>>, sub_cat_1 |-> <<marker>>, sub_cat_2 |-> <<marker>>,
   semantic_theme |-> theme]

AppendResult(p, result) ==
  session' = [session EXCEPT ![p].results = Append(@, result)]

Logged(p, entry) ==
  calls' = [calls EXCEPT ![p] = Append(@, entry @@ [keyword |-> CurrentKeyword(p)])]

\* mutant: the loop steps over the keyword that follows
NextKeyword_SkipsOne(p, counters) ==
  run' = [run EXCEPT ![p] = [counters EXCEPT !.i = @ + 2]]

\* the loop moves on to the next keyword, the counters brought up to date
NextKeyword(p, counters) ==
  run' = [run EXCEPT ![p] = [counters EXCEPT !.i = @ + 1]]

\* mutant: the cap cuts the pasted lines, before they are parsed
input_section_CutsLines(input_method, data) ==
  IF input_method = "Upload CSV"
  THEN IF data.t = "none" THEN [keywords_to_process |-> <<>>, input_error |-> None]
       ELSE LET r == parse_keywords(data, "csv")
            IN  IF Truthy(r.error_message)
                THEN [keywords_to_process |-> <<>>, input_error |-> r.error_message]
                ELSE [keywords_to_process |-> r.keywords, input_error |-> r.error_message]
  ELSE IF data.t = "none" \/ data.lines = <<>>
       THEN [keywords_to_process |-> <<>>, input_error |-> None]
       ELSE LET cut == [data EXCEPT !.lines = IF Len(@) > PasteLimit
                                              THEN SubSeq(@, 1, PasteLimit) ELSE @]
                r == parse_keywords(cut, "text")
            IN  [keywords_to_process |-> r.keywords, input_error |-> r.error_message]

\* lines 105-151: what the script makes of the upload or of the pasted text
input_section(input_method, data) ==
  IF input_method = "Upload CSV"
  THEN IF data.t = "none" THEN [keywords_to_process |-> <<>>, input_error |-> None]
       ELSE LET r == parse_keywords(data, "csv")
            IN  IF Truthy(r.error_message)
                THEN [keywords_to_process |-> <<>>, input_error |-> r.error_message]
                ELSE [keywords_to_process |-> r.keywords, input_error |-> r.error_message]
  ELSE IF data.t = "none" \/ data.lines = <<>>
       THEN [keywords_to_process |-> <<>>, input_error |-> None]
       ELSE LET r == parse_keywords(data, "text")
            IN  IF Truthy(r.error_message)
                THEN [keywords_to_process |-> <<>>, input_error |-> r.error_message]
                ELSE IF Len(r.keywords) > PasteLimit
                THEN [keywords_to_process |-> SubSeq(r.keywords, 1, PasteLimit),
                      input_error |-> r.error_message]
                ELSE [keywords_to_process |-> r.keywords, input_error |-> r.error_message]

\* the module-level init_db() that runs when the script imports db_utils
Import(p) ==
  LET r == init_db(db_exists, db_up)
  IN  /\ pc[p] = "import"
      /\ r.raised = "none"
      /\ db_exists' = r.exists
      /\ pc' = [pc EXCEPT ![p] = "idle"]
      /\ UNCHANGED <<digest, input, db, db_up, now, api, inserted, session, run, calls, prev, nruns>>

\* mutant: the results of the run before are not cleared
StartRun_KeepsResults(p, keywords, language, prompt, llm) ==
  /\ pc[p] = "idle"
  /\ ~session[p].processing
  /\ nruns[p] < MaxRuns
  /\ session' = [session EXCEPT ![p] = [processing |-> TRUE, results_is_none |-> FALSE,
                                        results |-> session[p].results,
                                        error_message |-> None]]
  /\ run' = [run EXCEPT ![p] = [keywords_to_process |-> keywords,
                                selected_language |-> language, custom_prompt |-> prompt,
                                selected_llm |-> llm, i |-> 0,
                                total_keywords |-> Len(keywords), processed_count |-> 0,
                                errors |-> 0, llm_calls |-> 0, cache_hits |-> 0,
                                fields |-> <<>>]]
  /\ calls' = [calls EXCEPT ![p] = <<>>]
  /\ prev' = [prev EXCEPT ![p] =
                IF nruns[p] = 0 THEN @
                ELSE [ran |-> TRUE, keywords |-> run[p].keywords_to_process,
                      language |-> run[p].selected_language,
                      prompt |-> run[p].custom_prompt, llm |-> run[p].selected_llm,
                      results |-> session[p].results]]
  /\ nruns' = [nruns EXCEPT ![p] = @ + 1]
  /\ pc' = [pc EXCEPT ![p] = "loop"]
  /\ UNCHANGED <<digest, input, cacheVars>>

\* lines 161-176: the button is pressed with keywords to process
StartRun(p, keywords, language, prompt, llm) ==
  /\ pc[p] = "idle"
  /\ ~session[p].processing
  /\ nruns[p] < MaxRuns
  /\ session' = [session EXCEPT ![p] = [processing |-> TRUE, results_is_none |-> FALSE,
                                        results |-> <<>>, error_message |-> None]]
  /\ run' = [run EXCEPT ![p] = [keywords_to_process |-> keywords,
                                selected_language |-> language, custom_prompt |-> prompt,
                                selected_llm |-> llm, i |-> 0,
                                total_keywords |-> Len(keywords), processed_count |-> 0,
                                errors |-> 0, llm_calls |-> 0, cache_hits |-> 0,
                                fields |-> <<>>]]
  /\ calls' = [calls EXCEPT ![p] = <<>>]
  /\ prev' = [prev EXCEPT ![p] =
                IF nruns[p] = 0 THEN @
                ELSE [ran |-> TRUE, keywords |-> run[p].keywords_to_process,
                      language |-> run[p].selected_language,
                      prompt |-> run[p].custom_prompt, llm |-> run[p].selected_llm,
                      results |-> session[p].results]]
  /\ nruns' = [nruns EXCEPT ![p] = @ + 1]
  /\ pc' = [pc EXCEPT ![p] = "loop"]
  /\ UNCHANGED <<digest, input, cacheVars>>

\* mutant: the lookup error is recorded but the keyword is not skipped
CheckCache_NoContinue(p) ==
  LET keyword == CurrentKeyword(p)
      r == get_existing_grouping(db, db_up, keyword, run[p].selected_language,
                                 run[p].custom_prompt)
      present == HasKey(db, keyword, run[p].selected_language, run[p].custom_prompt)
      get(key) == IF key \in DOMAIN r.ret.d THEN r.ret.d[key] ELSE <<"N/A">>
  IN  /\ pc[p] = "loop"
      /\ run[p].i < run[p].total_keywords
      /\ IF r.raised # "none"
         THEN /\ AppendResult(p, ResultFor(p, Sentinel("DB_ERROR",
                                                      <<"DB Check Error: ", r.raised>>)))
              /\ run' = [run EXCEPT ![p].errors = @ + 1]
              /\ Logged(p, [op |-> "lookup", present |-> present, outcome |-> "error"])
              /\ pc' = [pc EXCEPT ![p] = "llm"]
         ELSE IF Truthy(r.ret)
         THEN /\ AppendResult(p, ResultFor(p, [main_cat |-> get("main_cat"),
                                               sub_cat_1 |-> get("sub_cat_1"),
                                               sub_cat_2 |-> get("sub_cat_2"),
                                               semantic_theme |-> get("semantic_theme"),
                                               _source |-> "cache"]))
              /\ NextKeyword(p, [run[p] EXCEPT !.cache_hits = @ + 1,
                                               !.processed_count = @ + 1])
              /\ Logged(p, [op |-> "lookup", present |-> present, outcome |-> "hit"])
              /\ UNCHANGED pc
         ELSE /\ pc' = [pc EXCEPT ![p] = "llm"]
              /\ Logged(p, [op |-> "lookup", present |-> present, outcome |-> "miss"])
              /\ UNCHANGED <<session, run>>
      /\ UNCHANGED <<digest, input, cacheVars, prev, nruns>>

\* mutant: the lookup is keyed by the vendor where the language belongs
CheckCache_ByVendor(p) ==
  LET keyword == CurrentKeyword(p)
      r == get_existing_grouping(db, db_up, keyword, run[p].selected_llm,
                                 run[p].custom_prompt)
      present == HasKey(db, keyword, run[p].selected_language, run[p].custom_prompt)
      get(key) == IF key \in DOMAIN r.ret.d THEN r.ret.d[key] ELSE <<"N/A">>
  IN  /\ pc[p] = "loop"
      /\ run[p].i < run[p].total_keywords
      /\ IF r.raised # "none"
         THEN /\ AppendResult(p, ResultFor(p, Sentinel("DB_ERROR",
                                                      <<"DB Check Error: ", r.raised>>)))
              /\ NextKeyword(p, [run[p] EXCEPT !.errors = @ + 1])
              /\ Logged(p, [op |-> "lookup", present |-> present, outcome |-> "error"])
              /\ UNCHANGED pc
         ELSE IF Truthy(r.ret)
         THEN /\ AppendResult(p, ResultFor(p, [main_cat |-> get("main_cat"),
                                               sub_cat_1 |-> get("sub_cat_1"),
                                               sub_cat_2 |-> get("sub_cat_2"),
                                               semantic_theme |-> get("semantic_theme"),
                                               _source |-> "cache"]))
              /\ NextKeyword(p, [run[p] EXCEPT !.cache_hits = @ + 1,
                                               !.processed_count = @ + 1])
              /\ Logged(p, [op |-> "lookup", present |-> present, outcome |-> "hit"])
              /\ UNCHANGED pc
         ELSE /\ pc' = [pc EXCEPT ![p] = "llm"]
              /\ Logged(p, [op |-> "lookup", present |-> present, outcome |-> "miss"])
              /\ UNCHANGED <<session, run>>
      /\ UNCHANGED <<digest, input, cacheVars, prev, nruns>>

\* lines 191-214: the cache is asked first
CheckCache(p) ==
  LET keyword == CurrentKeyword(p)
      r == get_existing_grouping(db, db_up, keyword, run[p].selected_language,
                                 run[p].custom_prompt)
      present == HasKey(db, keyword, run[p].selected_language, run[p].custom_prompt)
      get(key) == IF key \in DOMAIN r.ret.d THEN r.ret.d[key] ELSE <<"N/A">>
  IN  /\ pc[p] = "loop"
      /\ run[p].i < run[p].total_keywords
      /\ IF r.raised # "none"
         THEN /\ AppendResult(p, ResultFor(p, Sentinel("DB_ERROR",
                                                      <<"DB Check Error: ", r.raised>>)))
              /\ NextKeyword(p, [run[p] EXCEPT !.errors = @ + 1])
              /\ Logged(p, [op |-> "lookup", present |-> present, outcome |-> "error"])
              /\ UNCHANGED pc
         ELSE IF Truthy(r.ret)
         THEN /\ AppendResult(p, ResultFor(p, [main_cat |-> get("main_cat"),
                                               sub_cat_1 |-> get("sub_cat_1"),
                                               sub_cat_2 |-> get("sub_cat_2"),
                                               semantic_theme |-> get("semantic_theme"),
                                               _source |-> "cache"]))
              /\ NextKeyword(p, [run[p] EXCEPT !.cache_hits = @ + 1,
                                               !.processed_count = @ + 1])
              /\ Logged(p, [op |-> "lookup", present |-> present, outcome |-> "hit"])
              /\ UNCHANGED pc
         ELSE /\ pc' = [pc EXCEPT ![p] = "llm"]
              /\ Logged(p, [op |-> "lookup", present |-> present, outcome |-> "miss"])
              /\ UNCHANGED <<session, run>>
      /\ UNCHANGED <<digest, input, cacheVars, prev, nruns>>

\* mutant: no try/except around the model call, its exception ends the script
CallLLM_Unhandled(p, outcome) ==
  LET counted == [run[p] EXCEPT !.llm_calls = @ + 1]
  IN  /\ pc[p] = "llm"
      /\ Logged(p, [op |-> "llm", raised |-> outcome.raised, ret |-> outcome.ret])
      /\ IF outcome.raised
         THEN /\ run' = [run EXCEPT ![p] = counted]
              /\ pc' = [pc EXCEPT ![p] = "idle"]
              /\ UNCHANGED session
         ELSE IF ValidResponse(outcome.ret)
         THEN /\ run' = [run EXCEPT ![p] = [counted EXCEPT
                                              !.fields = NormalizedFields(outcome.ret)]]
              /\ pc' = [pc EXCEPT ![p] = "store"]
              /\ UNCHANGED session
         ELSE /\ AppendResult(p, ResultFor(p, Sentinel("LLM_ERROR",
                                                      <<"Invalid/Incomplete LLM Response">>)
                                              @@ [_source |-> "llm_error"]))
              /\ NextKeyword(p, [counted EXCEPT !.errors = @ + 1])
              /\ pc' = [pc EXCEPT ![p] = "loop"]
      /\ UNCHANGED <<digest, input, cacheVars, prev, nruns>>

\* mutant: the error result of a failed model call is stored like a
\* classification
CallLLM_CachesErrors(p, outcome) ==
  LET counted == [run[p] EXCEPT !.llm_calls = @ + 1]
      r == add_keyword_grouping(db, db_up, now, CurrentKeyword(p),
                                run[p].selected_language, run[p].custom_prompt,
                                PyText(<<"LLM_ERROR">>), PyText(<<"LLM_ERROR">>),
                                PyText(<<"LLM_ERROR">>), PyText(<<"API/Processing Error">>))
  IN  /\ pc[p] = "llm"
      /\ Logged(p, [op |-> "llm", raised |-> outcome.raised, ret |-> outcome.ret])
      /\ IF outcome.raised
         THEN /\ AppendResult(p, ResultFor(p, Sentinel("LLM_ERROR", <<"API/Processing Error">>)
                                              @@ [_source |-> "llm_error"]))
              /\ NextKeyword(p, [counted EXCEPT !.errors = @ + 1])
              /\ pc' = [pc EXCEPT ![p] = "loop"]
              /\ db' = r.rows
         ELSE IF ValidResponse(outcome.ret)
         THEN /\ run' = [run EXCEPT ![p] = [counted EXCEPT
                                              !.fields = NormalizedFields(outcome.ret)]]
              /\ pc' = [pc EXCEPT ![p] = "store"]
              /\ UNCHANGED <<session, db>>
         ELSE /\ AppendResult(p, ResultFor(p, Sentinel("LLM_ERROR",
                                                      <<"Invalid/Incomplete LLM Response">>)
                                              @@ [_source |-> "llm_error"]))
              /\ NextKeyword(p, [counted EXCEPT !.errors = @ + 1])
              /\ pc' = [pc EXCEPT ![p] = "loop"]
              /\ UNCHANGED db
      /\ UNCHANGED <<digest, input, db_exists, db_up, now, api, inserted, prev, nruns>>

\* lines 217-233 and 258-268: the model is called and its response validated
CallLLM(p, outcome) ==
  LET counted == [run[p] EXCEPT !.llm_calls = @ + 1]
  IN  /\ pc[p] = "llm"
      /\ Logged(p, [op |-> "llm", raised |-> outcome.raised, ret |-> outcome.ret])
      /\ IF outcome.raised
         THEN /\ AppendResult(p, ResultFor(p, Sentinel("LLM_ERROR", <<"API/Processing Error">>)
                                              @@ [_source |-> "llm_error"]))
              /\ NextKeyword(p, [counted EXCEPT !.errors = @ + 1])
              /\ pc' = [pc EXCEPT ![p] = "loop"]
         ELSE IF ValidResponse(outcome.ret)
         THEN /\ run' = [run EXCEPT ![p] = [counted EXCEPT
                                              !.fields = NormalizedFields(outcome.ret)]]
              /\ pc' = [pc EXCEPT ![p] = "store"]
              /\ UNCHANGED session
         ELSE /\ AppendResult(p, ResultFor(p, Sentinel("LLM_ERROR",
                                                      <<"Invalid/Incomplete LLM Response">>)
                                              @@ [_source |-> "llm_error"]))
              /\ NextKeyword(p, [counted EXCEPT !.errors = @ + 1])
              /\ pc' = [pc EXCEPT ![p] = "loop"]
      /\ UNCHANGED <<digest, input, cacheVars, prev, nruns>>

\* mutant: no try/except around the store, its failure is not told from success
StoreResult_Unmarked(p) ==
  LET f == run[p].fields
      r == add_keyword_grouping(db, db_up, now, CurrentKeyword(p),
                                run[p].selected_language, run[p].custom_prompt,
                                PyText(f.main_cat), PyText(f.sub_cat_1),
                                PyText(f.sub_cat_2), PyText(f.semantic_theme))
  IN  /\ pc[p] = "store"
      /\ db' = r.rows
      /\ inserted' = IF r.rows # db
                     THEN inserted \cup {[keyword |-> CurrentKeyword(p),
                                          language |-> run[p].selected_language,
                                          prompt_text |-> run[p].custom_prompt,
                                          row |-> r.rows[Len(r.rows)]]}
                     ELSE inserted
      /\ Logged(p, [op |-> "store", raised |-> r.raised, warned |-> r.warned])
      /\ AppendResult(p, ResultFor(p, f @@ [_source |-> "llm"]))
      /\ NextKeyword(p, [run[p] EXCEPT !.processed_count = @ + 1])
      /\ pc' = [pc EXCEPT ![p] = "loop"]
      /\ UNCHANGED <<digest, input, db_exists, db_up, now, api, prev, nruns>>

\* mutant: a keyword whose store failed is counted as processed as well
StoreResult_CountsBoth(p) ==
  LET f == run[p].fields
      r == add_keyword_grouping(db, db_up, now, CurrentKeyword(p),
                                run[p].selected_language, run[p].custom_prompt,
                                PyText(f.main_cat), PyText(f.sub_cat_1),
                                PyText(f.sub_cat_2), PyText(f.semantic_theme))
  IN  /\ pc[p] = "store"
      /\ db' = r.rows
      /\ inserted' = IF r.rows # db
                     THEN inserted \cup {[keyword |-> CurrentKeyword(p),
                                          language |-> run[p].selected_language,
                                          prompt_text |-> run[p].custom_prompt,
                                          row |-> r.rows[Len(r.rows)]]}
                     ELSE inserted
      /\ Logged(p, [op |-> "store", raised |-> r.raised, warned |-> r.warned])
      /\ IF r.raised # "none"
         THEN /\ AppendResult(p, ResultFor(p, f @@ [_source |-> "llm_db_error"]))
              /\ NextKeyword(p, [run[p] EXCEPT !.errors = @ + 1, !.processed_count = @ + 1])
         ELSE /\ AppendResult(p, ResultFor(p, f @@ [_source |-> "llm"]))
              /\ NextKeyword(p, [run[p] EXCEPT !.processed_count = @ + 1])
      /\ pc' = [pc EXCEPT ![p] = "loop"]
      /\ UNCHANGED <<digest, input, db_exists, db_up, now, api, prev, nruns>>

\* lines 235-256: the normalized classification is stored and reported
StoreResult(p) ==
  LET f == run[p].fields
      r == add_keyword_grouping(db, db_up, now, CurrentKeyword(p),
                                run[p].selected_language, run[p].custom_prompt,
                                PyText(f.main_cat), PyText(f.sub_cat_1),
                                PyText(f.sub_cat_2), PyText(f.semantic_theme))
  IN  /\ pc[p] = "store"
      /\ db' = r.rows
      /\ inserted' = IF r.rows # db
                     THEN inserted \cup {[keyword |-> CurrentKeyword(p),
                                          language |-> run[p].selected_language,
                                          prompt_text |-> run[p].custom_prompt,
                                          row |-> r.rows[Len(r.rows)]]}
                     ELSE inserted
      /\ Logged(p, [op |-> "store", raised |-> r.raised, warned |-> r.warned])
      /\ IF r.raised # "none"
         THEN /\ AppendResult(p, ResultFor(p, f @@ [_source |-> "llm_db_error"]))
              /\ NextKeyword(p, [run[p] EXCEPT !.errors = @ + 1])
         ELSE /\ AppendResult(p, ResultFor(p, f @@ [_source |-> "llm"]))
              /\ NextKeyword(p, [run[p] EXCEPT !.processed_count = @ + 1])
      /\ pc' = [pc EXCEPT ![p] = "loop"]
      /\ UNCHANGED <<digest, input, db_exists, db_up, now, api, prev, nruns>>

\* lines 271-277: every keyword has been handled
FinishRun(p) ==
  /\ pc[p] = "loop"
  /\ run[p].i = run[p].total_keywords
  /\ session' = [session EXCEPT ![p].processing = FALSE]
  /\ pc' = [pc EXCEPT ![p] = "idle"]
  /\ UNCHANGED <<digest, input, cacheVars, run, calls, prev, nruns>>

\* the user uploads a file or pastes a text and the script reruns; given
\* says which of the enumerated inputs it was
EnterInput(p, input_method, given, data) ==
  LET r == input_section(input_method, data)
  IN  /\ pc[p] = "idle"
      /\ ~session[p].processing
      /\ input[p].input_method = "none"
      /\ input' = [input EXCEPT ![p] = [input_method |-> input_method, given |-> given,
                                        keywords_to_process |-> r.keywords_to_process,
                                        input_error |-> r.input_error]]
      /\ UNCHANGED <<digest, cacheVars, procVars>>

\* lines 159-176: the button, enabled only with keywords and without an
\* input error, hands the keywords to the processing loop
PressButton(p, language, prompt, llm) ==
  /\ input[p].keywords_to_process # <<>>
  /\ input[p].input_error = None
  /\ StartRun(p, input[p].keywords_to_process, language, prompt, llm)

\* the inputs of the runs of one process: two keywords, and a base
\* configuration with one that differs in the template
RunKeywords == {"k1", "k2"}
RunConfigs == {<<"English", <<"a">>>>, <<"English", <<"a", "E9">>>>}
RunResults == {None, UniformDict(PyText(<<"Shoes">>)), MixedDict}

RunNext ==
  \/ StorageFails
  \/ StorageRecovers
  \/ Import(1)
  \/ \E keywords \in KeywordLists(RunKeywords, MaxRunKeywords), cfg \in RunConfigs :
       StartRun(1, keywords, cfg[1], cfg[2], "OpenAI")
  \/ CheckCache(1)
  \/ \E outcome \in get_llm_grouping_outcomes(RunResults \ {None}) : CallLLM(1, outcome)
  \/ StoreResult(1)
  \/ FinishRun(1)

\* one process running one batch after another, the only writer of the cache
SpecRun == Init /\ [][RunNext]_vars

\* the inputs of a single batch: the first keywords of AllKeywords, and
\* another client of the cache storing under one of their keys beforehand
AllKeywords == <<"k1", "k2", "k3", "k4", "k5">>
BatchLists == {SubSeq(AllKeywords, 1, n) : n \in 1..MaxKeywords}

BatchNext ==
  \/ StorageFails
  \/ StorageRecovers
  \/ Import(1)
  \/ \E keywords \in BatchLists :
       nruns[1] = 0 /\ StartRun(1, keywords, "English", <<"a">>, "OpenAI")
  \/ CheckCache(1)
  \/ \E outcome \in get_llm_grouping_outcomes(RunResults) : CallLLM(1, outcome)
  \/ StoreResult(1)
  \/ FinishRun(1)
  \/ \E j \in 1..MaxKeywords :
       Len(db) = 0 /\ Store(<<AllKeywords[j], "English", <<"a">>>>, PyText(<<"Boots">>))

\* one process running a single batch
SpecBatch == Init /\ [][BatchNext]_vars

ResponseNext ==
  \/ StorageFails
  \/ StorageRecovers
  \/ Import(1)
  \/ \E keyword \in RunKeywords, cfg \in RunConfigs :
       nruns[1] = 0 /\ StartRun(1, <<keyword>>, cfg[1], cfg[2], "OpenAI")
  \/ CheckCache(1)
  \/ \E outcome \in get_llm_grouping_outcomes(LLMResults) : CallLLM(1, outcome)
  \/ StoreResult(1)
  \/ FinishRun(1)

\* one process handling one keyword, over every response of the model
SpecResponse == Init /\ [][ResponseNext]_vars

\* two processes of the application on the one database file, each running
\* the same keyword, language and template once; their models may answer
\* differently
SharedResults == {UniformDict(PyText(<<"Shoes">>)), UniformDict(PyText(<<"Boots">>))}

SharedNext ==
  \/ StorageFails
  \/ StorageRecovers
  \/ \E p \in Procs : Import(p)
  \/ \E p \in Procs : nruns[p] = 0 /\ StartRun(p, <<"k1">>, "English", <<"a">>, "OpenAI")
  \/ \E p \in Procs : CheckCache(p)
  \/ \E p \in Procs, outcome \in get_llm_grouping_outcomes(SharedResults) : CallLLM(p, outcome)
  \/ \E p \in Procs : StoreResult(p)
  \/ \E p \in Procs : FinishRun(p)

\* two processes interleaved at the granularity of the cache operations
SpecShared == Init /\ [][SharedNext]_vars

\* the same inputs run again: one process runs the same keywords, language
\* and template one time after another; another client of the cache may have
\* stored a record for the first keyword before the first run
RetryLists == {<<"k1">>, <<"k1", "k2">>}

RetryNext ==
  \/ StorageFails
  \/ StorageRecovers
  \/ Import(1)
  \/ \E keywords \in RetryLists :
       /\ nruns[1] > 0 => keywords = run[1].keywords_to_process
       /\ StartRun(1, keywords, "English", <<"a">>, "OpenAI")
  \/ CheckCache(1)
  \/ \E outcome \in get_llm_grouping_outcomes(RunResults) : CallLLM(1, outcome)
  \/ StoreResult(1)
  \/ FinishRun(1)
  \/ Len(db) = 0 /\ nruns[1] = 0
       /\ Store(<<"k1", "English", <<"a">>>>, PyText(<<"Boots">>))

\* one process repeating its run on a cache nobody else writes meanwhile
SpecRetry == Init /\ [][RetryNext]_vars

\* runs that differ in the vendor alone: one process runs the same keyword,
\* language and template with whichever vendor is selected
VendorNext ==
  \/ StorageFails
  \/ StorageRecovers
  \/ Import(1)
  \/ \E llm \in llm_options : StartRun(1, <<"k1">>, "English", <<"a">>, llm)
  \/ CheckCache(1)
  \/ \E outcome \in get_llm_grouping_outcomes(RunResults) : CallLLM(1, outcome)
  \/ StoreResult(1)
  \/ FinishRun(1)

\* one process running one keyword under one vendor after another
SpecVendor == Init /\ [][VendorNext]_vars

\* the inputs a user gives: count stands for the number of different
\* keywords, "1", "2", ..., each first occurring before the next; a plain
\* input has one keyword per line, a messy one pads them with whitespace and
\* follows each by a blank line or by a keyword that occurred before
KeywordCounts == 0..2 \cup (PasteLimit - 1)..(PasteLimit + MaxExtraLines)
Numbered(j) == <<ToString(j)>>

InputLines(count, messy) ==
  IF ~messy THEN [j \in 1..count |-> Numbered(j)]
  ELSE [j \in 1..(2 * count) |->
          IF j % 2 = 1 THEN <<" ">> \o Numbered((j + 1) \div 2) \o <<"\t", "\n">>
          ELSE IF j % 4 = 0 THEN <<" ", "\t">>
          ELSE Numbered((j + 2) \div 4)]

PastedText(count, messy) == [t |-> "text", lines |-> InputLines(count, messy)]

\* the frame of an uploaded file: its layout is the tuple of column names; a
\* blank line of the messy input is a missing value in the frame
UploadedFrame(count, messy, layout) ==
  LET lines == InputLines(count, messy)
      cell(j) == IF messy /\ j % 4 = 0 THEN None ELSE PyText(lines[j])
  IN  [t |-> "csv", decodes |-> TRUE, parses |-> TRUE,
       df |-> [columns |-> layout,
               rows |-> [j \in 1..Len(lines) |->
                           [c \in 1..Len(layout) |->
                              IF layout[c] = "keyword" \/ "keyword" \notin {layout[m] : m \in 1..Len(layout)}
                              THEN cell(j) ELSE PyText(<<"x">>)]]]]

Layouts == {<<"keyword">>, <<"term", "keyword">>, <<"term">>}
BrokenFiles == {[t |-> "csv", decodes |-> FALSE, parses |-> FALSE, df |-> None],
                [t |-> "csv", decodes |-> TRUE, parses |-> FALSE, df |-> None]}

InputNext ==
  \/ StorageFails
  \/ StorageRecovers
  \/ Import(1)
  \/ \E count \in KeywordCounts, messy \in BOOLEAN :
       EnterInput(1, "Paste Keywords", [family |-> "pasted", count |-> count, messy |-> messy],
                  PastedText(count, messy))
  \/ \E count \in KeywordCounts, messy \in BOOLEAN, layout \in Layouts :
       EnterInput(1, "Upload CSV",
                  [family |-> "frame", count |-> count, messy |-> messy, layout |-> layout],
                  UploadedFrame(count, messy, layout))
  \/ \E file \in BrokenFiles : EnterInput(1, "Upload CSV", [family |-> "broken"], file)
  \/ PressButton(1, "English", <<"a">>, "OpenAI")

\* one process taking its input and starting a run on it
SpecInput == Init /\ [][InputNext]_vars

(***************************************************************************)
(* The fingerprint on its own: two templates are fingerprinted, in whatever *)
(* state the cache is                                                      *)
(***************************************************************************)
NoFingerprint == [op |-> "none"]

\* a call of get_prompt_hash; the call before it is kept beside it
Fingerprint(t) ==
  /\ api' = [op |-> "fingerprint", args |-> <<t>>, raised |-> "none",
             ret |-> digest[t], warned |-> FALSE,
             before |-> IF api.op = "fingerprint"
                        THEN [op |-> "fingerprint", args |-> api.args, ret |-> api.ret]
                        ELSE NoFingerprint]
  /\ UNCHANGED <<digest, input, db_exists, db, db_up, now, inserted, procVars>>

\* a store between two fingerprints keeps the fingerprint taken before it
StoreBetween(key) ==
  LET r == add_keyword_grouping(db, db_up, now, key[1], key[2], key[3], PyText(<<"Shoes">>),
                                PyText(<<"Shoes">>), PyText(<<"Shoes">>), PyText(<<"Shoes">>))
  IN  /\ db_exists
      /\ db' = r.rows
      /\ inserted' = IF r.rows # db
                     THEN inserted \cup {[keyword |-> key[1], language |-> key[2],
                                          prompt_text |-> key[3], row |-> r.rows[Len(r.rows)]]}
                     ELSE inserted
      /\ UNCHANGED <<digest, input, db_exists, db_up, now, api, procVars>>

HashNext ==
  \/ \E t \in DOMAIN digest : Fingerprint(t)
  \/ Import(1)
  \/ \E key \in {<<"k1", "English", <<"a">>>>, <<"k1", "English", <<"a", "E9">>>>} :
       StoreBetween(key)

SpecHash == InitWith(TextsUpTo(MaxTemplateLen)) /\ [][HashNext]_vars

(***************************************************************************)
(* Properties of the cache (SpecCache)                                     *)
(***************************************************************************)
\* the rows of the table that carry the key of a direct call
RowsOfCall == {j \in 1..Len(db) : SameKey(db[j], api.args.keyword, api.args.language,
                                          digest[api.args.prompt_text])}

FieldsOf(row) ==
  [main_cat |-> row.main_cat, sub_cat_1 |-> row.sub_cat_1, sub_cat_2 |-> row.sub_cat_2,
   semantic_theme |-> row.semantic_theme]

\* the last call was a store that found its key in the table
StoreOnExistingKey == api.op = "store" /\ api.raised = "none" /\ api.existed

\* ... and carried the very fields the stored record has
StoreRepeated ==
  /\ StoreOnExistingKey
  /\ \A f \in {api.args.main_cat, api.args.sub_cat_1, api.args.sub_cat_2,
               api.args.semantic_theme} : f.t = "str"
  /\ \E j \in RowsOfCall :
       FieldsOf(db[j]) = [main_cat |-> api.args.main_cat.v,
                          sub_cat_1 |-> api.args.sub_cat_1.v,
                          sub_cat_2 |-> api.args.sub_cat_2.v,
                          semantic_theme |-> api.args.semantic_theme.v]

\* C1: in every reachable state of the cache there is at most one stored
\* record for each triple (keyword, language, prompt fingerprint).
C1_UniqueTriple ==
  \A a, b \in 1..Len(db) :
    SameKey(db[a], db[b].keyword, db[b].language, db[b].prompt_hash) => a = b

\* C1 witness: a second store of a stored triple has been attempted, and
\* another triple is stored beside it
C1_Witness == StoreOnExistingKey /\ Len(db) = 2

\* C2 as claimed: the second of two identical stores leaves one record and
\* reports to its caller something other than what a first-time success
\* reports (which is: returns None), without failing.
C2_DuplicateReported ==
  StoreRepeated =>
    /\ Cardinality(RowsOfCall) = 1
    /\ api.raised = "none"
    /\ api.ret # None

\* C2 as amended: the second of two identical stores leaves exactly one
\* record and, the storage being available, does not fail; it returns None to
\* its caller just as a first-time success does, and the duplicate shows only
\* as a printed warning.
C2_DuplicateSilent ==
  (api.op = "store" /\ api.existed /\ api.raised # "OperationalError") =>
    /\ Cardinality(RowsOfCall) = 1
    /\ api.raised = "none"
    /\ api.ret = None
    /\ api.warned

\* C2 witness: the second of two identical stores has returned
C2_Witness == StoreRepeated /\ api.warned

\* C3: a stored record is never updated in place and never removed: every step
\* leaves every row of the table where it was, with all its columns.
C3_NeverUpdated ==
  [][\A j \in 1..Len(db) : j <= Len(db') /\ db'[j] = db[j]]_vars

\* C3 witness: a store on a stored triple with other category fields returned
C3_Witness ==
  /\ StoreOnExistingKey
  /\ api.args.main_cat.t = "str"
  /\ \E j \in RowsOfCall : db[j].main_cat # api.args.main_cat.v /\ db[j].date_added < now

\* the committed inserts made under the key of the last call
InsertedUnderCall ==
  {e \in inserted : /\ e.keyword = api.args.keyword
                    /\ e.language = api.args.language
                    /\ e.prompt_text = api.args.prompt_text}

\* C5: a lookup that returns gives 'not found' (None) unless a store under the
\* same keyword, language and template text succeeded before, and then it
\* gives the fields that store wrote; a store under another template of the
\* same keyword and language does not count.
C5_PromptInvalidation ==
  (api.op = "lookup" /\ api.raised = "none") =>
    IF InsertedUnderCall = {} THEN api.ret = None
    ELSE /\ api.ret.t = "dict"
         /\ \E e \in InsertedUnderCall : api.ret.d = FieldsOf(e.row)

\* C5 witness: a lookup under template T2 found nothing although a record of
\* the same keyword and language is stored under T1
C5_Witness ==
  /\ api.op = "lookup" /\ api.raised = "none" /\ api.ret = None
  /\ \E e \in inserted : /\ e.keyword = api.args.keyword
                         /\ e.language = api.args.language
                         /\ e.prompt_text # api.args.prompt_text

\* C11: a lookup never mutates the cache: whether it is a hit, 'not found' or
\* a read error, the step that makes it leaves the table, every row and every
\* column of it, and the existence of the table as they were.
C11_LookupReadOnly ==
  [][(api'.op = "lookup" /\ api' # api) =>
       (db' = db /\ db_exists' = db_exists /\ inserted' = inserted)]_vars

\* C11 witness: a lookup hit its record while another record is stored too
C11_Witness ==
  /\ api.op = "lookup" /\ api.raised = "none" /\ api.existed /\ api.ret.t = "dict"
  /\ Len(db) = 2

\* C12: a store is silent only when it persisted its record or when its triple
\* was already stored: every other storage fault, a NOT NULL violation among
\* them, is reported to the caller as a failure.
C12_FaultsReported ==
  (api.op = "store" /\ api.raised = "none") => (api.existed \/ RowsOfCall # {})

\* the last call was a listAll that returned its frame
Listed == api.op = "listAll" /\ api.raised = "none"

\* the frame holds every stored record exactly once, with the selected columns
ListsEveryRecordOnce ==
  /\ Len(api.ret.rows) = Len(db)
  /\ \A j \in 1..Len(db) :
       Cardinality({n \in 1..Len(api.rowids) : api.rowids[n] = db[j].id}) = 1
  /\ \A n \in 1..Len(api.ret.rows) :
       \E j \in 1..Len(db) : db[j].id = api.rowids[n] /\ api.ret.rows[n] = Selected(db[j])

\* C13 as claimed: listAll returns every stored record exactly once, and of
\* any two records the one created later (the higher rowid) comes first.
C13_LaterCreatedFirst ==
  Listed =>
    /\ ListsEveryRecordOnce
    /\ \A a, b \in 1..Len(api.rowids) : api.rowids[a] > api.rowids[b] => a < b

\* C13 as amended: listAll returns every stored record exactly once, ordered
\* by the recorded creation time, which has a resolution of one second: of two
\* records with different date_added the later comes first, and records
\* created within the same second come in either order.
C13_ByDateAddedDesc ==
  Listed =>
    /\ ListsEveryRecordOnce
    /\ \A a, b \in 1..Len(api.ret.rows) :
         api.ret.rows[a].date_added > api.ret.rows[b].date_added => a < b

\* C13 witness: two records created in different seconds were listed, the
\* later one first
C13_Witness ==
  /\ Listed /\ Len(api.ret.rows) = 2
  /\ api.ret.rows[1].date_added > api.ret.rows[2].date_added
  /\ api.rowids = <<2, 1>>

\* C14: init_db is idempotent: called at any point among stores and lookups,
\* any number of times, it leaves every stored record as it was and keeps the
\* table, and it raises only when the database itself is unavailable, never
\* because the table already exists.
C14_InitIdempotent ==
  [][(api'.op = "init_db" /\ api' # api) =>
       /\ db' = db /\ inserted' = inserted
       /\ db_exists => db_exists'
       /\ db_up => (api'.raised = "none" /\ db_exists')]_vars

\* C14 witness: init_db returned after two records were stored
C14_Witness == api.op = "init_db" /\ api.raised = "none" /\ Len(db) = 2 /\ db_exists

(***************************************************************************)
(* Properties of the processing loop                                       *)
(***************************************************************************)
Results == session[1].results
Calls == calls[1]

HasSource(r, source) == "_source" \in DOMAIN r /\ r._source = source

\* the calls of the current run made for keyword k
CallsFor(k) == {j \in 1..Len(Calls) : Calls[j].keyword = k}

C7_BatchResilience ==
  /\ pc[1] \in {"loop", "llm", "store"} => Len(Results) = run[1].i
  /\ (pc[1] = "idle" /\ nruns[1] > 0) => Len(Results) = Len(run[1].keywords_to_process)
  /\ \A n \in 1..Len(Results) :
       /\ Results[n].keyword = run[1].keywords_to_process[n]
       /\ (\E j \in CallsFor(Results[n].keyword) : Calls[j].op = "llm" /\ Calls[j].raised)
            <=> (/\ Results[n].semantic_theme = <<"API/Processing Error">>
                 /\ Results[n].main_cat = <<"LLM_ERROR">>
                 /\ HasSource(Results[n], "llm_error"))

\* C7 witness: a batch of three keywords has ended, the model call of the
\* second raised, the first and the third are successful
C7_Witness ==
  /\ pc[1] = "idle" /\ Len(Results) = 3
  /\ \E j \in CallsFor("k2") : Calls[j].op = "llm" /\ Calls[j].raised
  /\ HasSource(Results[1], "llm") \/ HasSource(Results[1], "cache")
  /\ HasSource(Results[2], "llm_error")
  /\ HasSource(Results[3], "llm") \/ HasSource(Results[3], "cache")

\* the text a raw value of a response stands for
TextOf(raw) == IF raw.t = "str" THEN raw.v ELSE <<"None">>

\* t is s without the whitespace at its two ends
IsTrimOf(t, s) ==
  \E a, b \in 0..Len(s) :
    /\ a + Len(t) + b = Len(s)
    /\ \A j \in 1..Len(t) : t[j] = s[a + j]
    /\ \A j \in 1..a : s[j] \in Whitespace
    /\ \A j \in (Len(s) - b + 1)..Len(s) : s[j] \in Whitespace
    /\ t # <<>> => (t[1] \notin Whitespace /\ t[Len(t)] \notin Whitespace)

FixedDefault ==
  [main_cat |-> <<"Uncategorized">>, sub_cat_1 |-> <<"General">>,
   sub_cat_2 |-> <<"Detail">>, semantic_theme |-> <<"N/A">>]

\* out is what the field key is to become of the raw value: its trimmed
\* text, or the fixed default of the field when that is empty
DefaultedFrom(key, raw, out) ==
  /\ out # <<>>
  /\ IF IsTrimOf(<<>>, TextOf(raw)) THEN out = FixedDefault[key]
     ELSE IsTrimOf(out, TextOf(raw))

\* C8: for a response that is a mapping with the four fields, each field
\* handed to store, written to the table and put into the run result is the
\* trimmed text of the response's value, or the field's fixed default when the
\* trimmed text is empty.
C8_Defaulting ==
  \A j \in 1..Len(Calls) :
    (/\ Calls[j].op = "llm" /\ ~Calls[j].raised
     /\ Calls[j].ret.t = "dict" /\ RequiredKeys \subseteq DOMAIN Calls[j].ret.d) =>
      /\ pc[1] = "store" \/ \E n \in 1..Len(Results) :
                              HasSource(Results[n], "llm") \/ HasSource(Results[n], "llm_db_error")
      /\ \A key \in RequiredKeys :
           /\ pc[1] = "store" => DefaultedFrom(key, Calls[j].ret.d[key], run[1].fields[key])
           /\ \A n \in 1..Len(Results) :
                DefaultedFrom(key, Calls[j].ret.d[key], Results[n][key])
           /\ \A e \in inserted : DefaultedFrom(key, Calls[j].ret.d[key], e.row[key])

\* C8 witness: a response whose sub_cat_1 is only whitespace has been stored
\* with sub_cat_1 'General'
C8_Witness ==
  /\ \E j \in 1..Len(Calls) :
       /\ Calls[j].op = "llm" /\ ~Calls[j].raised /\ Calls[j].ret.t = "dict"
       /\ RequiredKeys \subseteq DOMAIN Calls[j].ret.d
       /\ Calls[j].ret.d["sub_cat_1"] = PyText(<<" ", "\t">>)
  /\ \E e \in inserted : e.row.sub_cat_1 = <<"General">>
  /\ Len(Results) = 1 /\ Results[1].sub_cat_1 = <<"General">>

\* C9: no stored record has an empty category or theme, whatever the model
\* answered in whatever run.
C9_NoEmptyField ==
  \A j \in 1..Len(db) :
    /\ db[j].main_cat # <<>>
    /\ db[j].sub_cat_1 # <<>>
    /\ db[j].sub_cat_2 # <<>>
    /\ db[j].semantic_theme # <<>>

\* C9 witness: records are stored from a response with an empty sub_cat_1 and
\* from a response without empty fields
C9_Witness ==
  /\ Len(db) = 2
  /\ \E j \in 1..Len(Calls) :
       /\ Calls[j].op = "llm" /\ Calls[j].ret = MixedDict
       /\ \E m \in CallsFor(Calls[j].keyword) : Calls[m].op = "store" /\ Calls[m].raised = "none"

\* the response of a model call is not a mapping with the four required keys
InvalidResponse(ret) ==
  IF ret.t = "dict" THEN ~(RequiredKeys \subseteq DOMAIN ret.d) ELSE TRUE

\* what went wrong for keyword k in the current run, if anything
LookupFailed(k) == \E j \in CallsFor(k) : Calls[j].op = "lookup" /\ Calls[j].outcome = "error"
ModelRaised(k) == \E j \in CallsFor(k) : Calls[j].op = "llm" /\ Calls[j].raised
ModelInvalid(k) ==
  \E j \in CallsFor(k) : Calls[j].op = "llm" /\ ~Calls[j].raised /\ InvalidResponse(Calls[j].ret)
StoreFailed(k) == \E j \in CallsFor(k) : Calls[j].op = "store" /\ Calls[j].raised # "none"

SentinelMarkers == {<<"DB_ERROR">>, <<"LLM_ERROR">>}
HasSentinels(r) ==
  r.main_cat \in SentinelMarkers /\ r.sub_cat_1 = r.main_cat /\ r.sub_cat_2 = r.main_cat

\* the model response that was accepted for keyword k
AcceptedFor(k) ==
  {Calls[j].ret : j \in {m \in CallsFor(k) : Calls[m].op = "llm" /\ ~Calls[m].raised
                                              /\ ~InvalidResponse(Calls[m].ret)}}

\* C15 as claimed: the result of every keyword that errored, by a lookup
\* error, a model exception, an invalid response or a store failure, has
\* sentinel markers in main_cat, sub_cat_1 and sub_cat_2.
C15_ErrorsAreSentinels ==
  \A n \in 1..Len(Results) :
    (\/ LookupFailed(Results[n].keyword) \/ ModelRaised(Results[n].keyword)
     \/ ModelInvalid(Results[n].keyword) \/ StoreFailed(Results[n].keyword)) =>
      HasSentinels(Results[n])

\* C15 as amended: the result of a keyword whose lookup raised has the marker
\* DB_ERROR in its three category fields, the result of a keyword whose model
\* call raised or answered invalidly has the marker LLM_ERROR in them, and
\* the result of a keyword whose store failed keeps the classification
\* obtained from the model and is marked by its _source 'llm_db_error' alone.
C15_ErrorsAreMarked ==
  \A n \in 1..Len(Results) :
    LET k == Results[n].keyword
    IN  /\ LookupFailed(k) => (HasSentinels(Results[n]) /\ Results[n].main_cat = <<"DB_ERROR">>)
        /\ (ModelRaised(k) \/ ModelInvalid(k)) =>
             (HasSentinels(Results[n]) /\ Results[n].main_cat = <<"LLM_ERROR">>)
        /\ StoreFailed(k) =>
             /\ HasSource(Results[n], "llm_db_error")
             /\ \E ret \in AcceptedFor(k) :
                  \A key \in RequiredKeys : DefaultedFrom(key, ret.d[key], Results[n][key])

\* C15 witness: the store of a valid response failed and its result carries
\* the classification, not a marker
C15_Witness ==
  /\ Len(Results) = 1 /\ StoreFailed(Results[1].keyword)
  /\ Results[1].main_cat = <<"Shoes">> /\ ~HasSentinels(Results[1])

\* the step makes a call that is logged: the last entry of the log after it
CallMade == Len(calls'[1]) = Len(calls[1]) + 1
NewCall == calls'[1][Len(calls'[1])]
NewResult == session'[1].results[Len(session'[1].results)]
ResultAdded == Len(session'[1].results) = Len(session[1].results) + 1

\* C17: when the model returns something that is not a mapping with the four
\* required keys, that step records a result of provenance 'llm_error' for
\* the keyword, counts exactly one error and leaves the cache alone; the loop
\* goes on to the next keyword and no store call is ever made for this one.
C17_InvalidResponse ==
  [][/\ (CallMade /\ NewCall.op = "llm" /\ ~NewCall.raised /\ InvalidResponse(NewCall.ret)) =>
          /\ run'[1].errors = run[1].errors + 1
          /\ ResultAdded
          /\ NewResult.keyword = NewCall.keyword
          /\ HasSource(NewResult, "llm_error") /\ HasSentinels(NewResult)
          /\ db' = db /\ inserted' = inserted
          /\ pc'[1] = "loop" /\ run'[1].i = run[1].i + 1
     /\ (CallMade /\ NewCall.op = "store") => ~ModelInvalid(NewCall.keyword)]_vars

\* C17 witness: the model answered with a mapping that lacks sub_cat_2; the
\* run ended with one error, an 'llm_error' result and an empty cache
C17_Witness ==
  /\ pc[1] = "idle" /\ Len(Results) = 1 /\ HasSource(Results[1], "llm_error")
  /\ \E j \in 1..Len(Calls) :
       /\ Calls[j].op = "llm" /\ ~Calls[j].raised /\ Calls[j].ret.t = "dict"
       /\ DOMAIN Calls[j].ret.d = RequiredKeys \ {"sub_cat_2"}
  /\ run[1].errors = 1 /\ db = <<>>

\* C18: the step that stores a valid response decides the provenance of the
\* keyword's result by the outcome of the store: when the store raises, the
\* result is tagged 'llm_db_error', still carries the classification obtained
\* from the model, and one error is counted; when the store returns, having
\* inserted the record or found a duplicate, the result is tagged 'llm', no
\* error is counted and the keyword counts as processed.
C18_StoreDecidesProvenance ==
  [][(CallMade /\ NewCall.op = "store") =>
       LET answered == Calls[Len(Calls)]
       IN  /\ answered.op = "llm" /\ ~answered.raised /\ ~InvalidResponse(answered.ret)
           /\ answered.keyword = NewCall.keyword
           /\ ResultAdded /\ NewResult.keyword = NewCall.keyword
           /\ \A key \in RequiredKeys :
                DefaultedFrom(key, answered.ret.d[key], NewResult[key])
           /\ IF NewCall.raised # "none"
              THEN /\ HasSource(NewResult, "llm_db_error")
                   /\ run'[1].errors = run[1].errors + 1
                   /\ run'[1].processed_count = run[1].processed_count
                   /\ db' = db
              ELSE /\ HasSource(NewResult, "llm")
                   /\ run'[1].errors = run[1].errors
                   /\ run'[1].processed_count = run[1].processed_count + 1
                   /\ NewCall.warned <=> db' = db]_vars

\* C18 witness: in one batch the store of one keyword failed and the store of
\* another found a duplicate that another client had stored meanwhile
C18_Witness ==
  /\ \E n \in 1..Len(Results) :
       HasSource(Results[n], "llm_db_error") /\ Results[n].main_cat = <<"Shoes">>
  /\ \E n \in 1..Len(Results), j \in 1..Len(Calls) :
       /\ HasSource(Results[n], "llm") /\ Calls[j].keyword = Results[n].keyword
       /\ Calls[j].op = "store" /\ Calls[j].warned
  /\ run[1].errors = 1

\* the tags a result is marked as an error with
ErrorSources == {"error", "db_error", "llm_error", "llm_db_error"}

\* C19: the result of a keyword whose lookup raised a storage error is tagged
\* with an error provenance and carries an error description; neither the
\* model nor the store is called for the keyword, and the loop moves on.
C19_LookupErrorTagged ==
  \A n \in 1..Len(Results) :
    LookupFailed(Results[n].keyword) =>
      /\ \E source \in ErrorSources : HasSource(Results[n], source)
      /\ Head(Results[n].semantic_theme) = "DB Check Error: "
      /\ \A j \in CallsFor(Results[n].keyword) : Calls[j].op = "lookup"
      /\ run[1].i >= n

\* the path of keyword k through the loop, read off the calls of the run
LookupsOf(k) == {j \in CallsFor(k) : Calls[j].op = "lookup"}
CacheHit(k) == \E j \in LookupsOf(k) : Calls[j].outcome = "hit"
ModelMiss(k) == \E j \in LookupsOf(k) : Calls[j].outcome = "miss"
ResultsOf(k) == {n \in 1..Len(Results) : Results[n].keyword = k}

\* the terminal states of a keyword, by its result
Success(r) == HasSource(r, "cache") \/ HasSource(r, "llm")
Error(r) == ~Success(r)

\* the keywords of the run that have left the loop body
Done == {Results[n].keyword : n \in 1..Len(Results)}

\* C20 as claimed: every keyword that reached a terminal state passed through
\* exactly one of cache_hit and model_miss before, reached exactly one
\* terminal state, and ended in success if it was a cache hit.
C20_HitOrMissFirst ==
  \A k \in Done :
    /\ Cardinality(LookupsOf(k)) = 1
    /\ CacheHit(k) # ModelMiss(k)
    /\ Cardinality(ResultsOf(k)) = 1
    /\ CacheHit(k) => \A n \in ResultsOf(k) : Success(Results[n])

\* C20 as amended: every keyword is looked up once. When the lookup raises a
\* storage error the keyword goes from pending straight to error, through
\* neither cache_hit nor model_miss; otherwise it passes through exactly one
\* of the two. It reaches exactly one terminal state; a cache_hit always ends
\* in success, without a model or store call, and a model_miss ends in
\* success or error after exactly one model call.
C20_KeywordStateMachine ==
  /\ \A k \in Done :
       /\ Cardinality(LookupsOf(k)) = 1
       /\ Cardinality(ResultsOf(k)) = 1
       /\ Cardinality({b \in {"e", "h", "m"} :
                         \/ b = "e" /\ LookupFailed(k)
                         \/ b = "h" /\ CacheHit(k)
                         \/ b = "m" /\ ModelMiss(k)}) = 1
       /\ \A n \in ResultsOf(k) :
            /\ LookupFailed(k) => (Error(Results[n]) /\ CallsFor(k) = LookupsOf(k))
            /\ CacheHit(k) => (HasSource(Results[n], "cache") /\ CallsFor(k) = LookupsOf(k))
            /\ ModelMiss(k) =>
                 /\ Cardinality({j \in CallsFor(k) : Calls[j].op = "llm"}) = 1
                 /\ Success(Results[n]) <=>
                      \E j \in CallsFor(k) : Calls[j].op = "store" /\ Calls[j].raised = "none"
  /\ run[1].processed_count = Cardinality({n \in 1..Len(Results) : Success(Results[n])})
  /\ run[1].errors = Cardinality({n \in 1..Len(Results) : Error(Results[n])})
  /\ \A j \in 1..Len(Calls) :
       Calls[j].keyword \notin Done =>
         (pc[1] \in {"llm", "store"} /\ Calls[j].keyword = CurrentKeyword(1) /\ ModelMiss(Calls[j].keyword))

\* C20 witness: a batch of three has ended: the lookup of the first raised,
\* the second was a cache hit, the third a miss that the model classified
C20_Witness ==
  /\ pc[1] = "idle" /\ Len(Results) = 3
  /\ LookupFailed("k1") /\ Error(Results[1])
  /\ CacheHit("k2") /\ HasSource(Results[2], "cache")
  /\ ModelMiss("k3") /\ HasSource(Results[3], "llm")

\* the position of keyword k in the keywords of the run
PositionOf(k) ==
  CHOOSE n \in 1..Len(run[1].keywords_to_process) : run[1].keywords_to_process[n] = k

\* the keywords whose model call is under way: the lookup missed, the call
\* has not returned
ModelCallsInProgress ==
  {k \in {Calls[j].keyword : j \in 1..Len(Calls)} :
     ModelMiss(k) /\ \A j \in CallsFor(k) : Calls[j].op # "llm"}

\* results and calls follow the order of the input
InInputOrder ==
  /\ \A n \in 1..Len(Results) : Results[n].keyword = run[1].keywords_to_process[n]
  /\ \A j, m \in 1..Len(Calls) :
       j < m => PositionOf(Calls[j].keyword) <= PositionOf(Calls[m].keyword)
  /\ Cardinality(ModelCallsInProgress) <= 1
  /\ ModelCallsInProgress # {} => (pc[1] = "llm" /\ ModelCallsInProgress = {CurrentKeyword(1)})

\* C21: the n-th result is for the n-th keyword of the input, the calls of a
\* run are made in the order of the keywords, a keyword is looked up only when
\* the result of every keyword before it has been recorded and no model call
\* is under way, and at most one model call is under way at any time.
C21_StrictlySequential ==
  [][/\ InInputOrder'
     /\ (CallMade /\ NewCall.op = "lookup") =>
          /\ PositionOf(NewCall.keyword) = Len(Results) + 1
          /\ ModelCallsInProgress = {}
          /\ \A j \in 1..Len(Calls) : Calls[j].keyword \in Done]_vars

\* C21 witness: a batch of three has ended with a model call for each keyword
C21_Witness ==
  /\ pc[1] = "idle" /\ Len(Results) = 3
  /\ run[1].llm_calls = 3
  /\ \A n \in 1..3 : ModelMiss(AllKeywords[n]) /\ Results[n].keyword = AllKeywords[n]

\* the run before this one was given the same inputs
SameInputsAgain ==
  /\ prev[1].ran
  /\ prev[1].keywords = run[1].keywords_to_process
  /\ prev[1].language = run[1].selected_language
  /\ prev[1].prompt = run[1].custom_prompt

\* the model has been invoked for keyword k in this run, or is being invoked
ModelInvoked(k) ==
  \/ \E j \in CallsFor(k) : Calls[j].op = "llm"
  \/ pc[1] = "llm" /\ CurrentKeyword(1) = k

\* within a run the model is invoked at most once per keyword
NoRetries ==
  \A j \in 1..Len(Calls) :
    Cardinality({m \in CallsFor(Calls[j].keyword) : Calls[m].op = "llm"}) <= 1

\* the lookups of this run, not failed, of keywords whose result in the run
\* before was an error: pairs of the earlier result and the lookup
RetriedLookups ==
  {al \in (1..Len(prev[1].results)) \X (1..Len(Calls)) :
     /\ Error(prev[1].results[al[1]])
     /\ Calls[al[2]].keyword = prev[1].results[al[1]].keyword
     /\ Calls[al[2]].op = "lookup"
     /\ Calls[al[2]].outcome # "error"}

\* every keyword whose result was an error before misses the cache and has
\* the model invoked again
ErroredMissAgain ==
  SameInputsAgain =>
    \A al \in RetriedLookups :
      /\ Calls[al[2]].outcome = "miss"
      /\ ModelInvoked(Calls[al[2]].keyword)

\* a keyword whose result was an error before finds what the cache held: no
\* record unless the error was a lookup error, a miss and a model call without
\* a record, a hit and no model call with one
ErroredFindStored ==
  SameInputsAgain =>
    \A al \in RetriedLookups :
      LET before == prev[1].results[al[1]]
          lookup == Calls[al[2]]
      IN  /\ before.main_cat # <<"DB_ERROR">> => ~lookup.present
          /\ ~lookup.present => (lookup.outcome = "miss" /\ ModelInvoked(lookup.keyword))
          /\ lookup.present =>
               /\ lookup.outcome = "hit"
               /\ \A m \in CallsFor(lookup.keyword) : Calls[m].op # "llm"

\* C23 as claimed: the model is invoked at most once per keyword in a run, a
\* step that records an error result writes nothing to the cache, and in a
\* run on the same inputs every keyword whose result was an error before
\* misses the cache and has the model invoked again.
C23_ErrorsAlwaysMiss ==
  [][/\ NoRetries'
     /\ (ResultAdded /\ Error(NewResult)) => db' = db
     /\ ErroredMissAgain']_vars

\* C23 as amended: the model is invoked at most once per keyword in a run and
\* a step that records an error result writes nothing to the cache. In a run
\* on the same inputs, a keyword whose result was an error after a cache miss
\* (model exception, invalid response, store failure) has no record, misses
\* the cache and has the model invoked again; a keyword whose error was a
\* lookup error is looked up again, and misses and has the model invoked only
\* if no record was stored for its triple: with a record it is a cache hit
\* and the model is not invoked.
C23_ErrorsRetried ==
  [][/\ NoRetries'
     /\ (ResultAdded /\ Error(NewResult)) => db' = db
     /\ ErroredFindStored']_vars

\* C23 witness: the model call of the first run raised, and the second run on
\* the same inputs missed the cache and called the model again, with success
C23_Witness ==
  /\ SameInputsAgain /\ pc[1] = "idle"
  /\ prev[1].results[1].semantic_theme = <<"API/Processing Error">>
  /\ ModelMiss("k1") /\ HasSource(Results[1], "llm")
  /\ run[1].llm_calls = Len(Results)

\* the step starts a run
RunStarts == nruns'[1] = nruns[1] + 1

\* every result is of the latest run: of its keyword at that place, in its
\* language, and preceded by a call this run made for the keyword
OfLatestRun ==
  /\ Len(Results) <= Len(run[1].keywords_to_process)
  /\ \A n \in 1..Len(Results) :
       /\ Results[n].keyword = run[1].keywords_to_process[n]
       /\ Results[n].language = run[1].selected_language
       /\ CallsFor(Results[n].keyword) # {}

\* the processing flag is set exactly while a run is under way
ProcessingWhileRunning == session[1].processing <=> pc[1] \in {"loop", "llm", "store"}

\* C24: the start of a run empties the results and sets the processing flag
\* before any keyword is handled; afterwards results are only appended, so at
\* any time the results hold entries of the latest run alone; the flag stays
\* set until every keyword is processed and is cleared when the run completes.
C24_ResultsPerRun ==
  [][/\ RunStarts => (session'[1].results = <<>> /\ session'[1].processing /\ Calls' = <<>>)
     /\ ~RunStarts => (session'[1].results = Results \/ ResultAdded)
     /\ ResultAdded => SubSeq(session'[1].results, 1, Len(Results)) = Results
     /\ OfLatestRun'
     /\ ProcessingWhileRunning'
     /\ (session[1].processing /\ ~session'[1].processing) =>
          Len(Results) = Len(run[1].keywords_to_process)]_vars

\* C24 witness: the second run, on another keyword than the first, has
\* completed; the results hold its entry alone and the flag is cleared
C24_Witness ==
  /\ prev[1].ran /\ pc[1] = "idle" /\ ~session[1].processing
  /\ Len(prev[1].results) = 1 /\ prev[1].results[1].keyword = "k1"
  /\ Len(Results) = 1 /\ Results[1].keyword = "k2"

\* the loop stands between two keywords, or the run has ended
BetweenKeywords == nruns[1] > 0 /\ pc[1] \in {"loop", "idle"}

\* the keywords of the run handled so far
Handled == run[1].i

LookupErrors == Cardinality({j \in 1..Len(Calls) : Calls[j].op = "lookup" /\ Calls[j].outcome = "error"})
ModelInvocations == Cardinality({j \in 1..Len(Calls) : Calls[j].op = "llm"})

OtherVendorBefore ==
  /\ prev[1].ran
  /\ prev[1].llm # run[1].selected_llm
  /\ prev[1].language = run[1].selected_language
  /\ prev[1].prompt = run[1].custom_prompt

StoresIn(p) ==
  /\ Len(calls'[p]) = Len(calls[p]) + 1
  /\ calls'[p][Len(calls'[p])].op = "store"

\* the records of the triple the two runs share
SharedRecords == {j \in 1..Len(db) : SameKey(db[j], "k1", "English", digest[<<"a">>])}

\* the store calls of process p that found the triple taken
Conflicts(p) == {j \in 1..Len(calls[p]) : calls[p][j].op = "store" /\ calls[p][j].warned}

\* C22: however the cache operations of the two runs interleave, there is at
\* most one record for their triple, a record once stored is never changed or
\* replaced, and the run whose insert finds the triple taken treats it as a
\* duplicate: nothing is raised, its result has provenance 'llm', its error
\* counter stays as it was and the keyword counts as processed.
C22_InterleavedRunsSafe ==
  [][/\ Cardinality(SharedRecords') <= 1
     /\ \A j \in 1..Len(db) : Len(db') >= j /\ db'[j] = db[j]
     /\ \A p \in Procs :
          (StoresIn(p) /\ SharedRecords # {} /\ db_up) =>
            /\ calls'[p][Len(calls'[p])].warned
            /\ calls'[p][Len(calls'[p])].raised = "none"
            /\ db' = db
            /\ Len(session'[p].results) = Len(session[p].results) + 1
            /\ HasSource(session'[p].results[Len(session'[p].results)], "llm")
            /\ run'[p].errors = run[p].errors
            /\ run'[p].processed_count = run[p].processed_count + 1]_vars

\* C22 witness: both runs missed the cache and called their models, which
\* answered differently; the first insert is the record, the second run met
\* the conflict, and both ended without an error
C22_Witness ==
  /\ \A p \in Procs : pc[p] = "idle" /\ nruns[p] = 1 /\ run[p].errors = 0
  /\ \A p \in Procs : HasSource(session[p].results[1], "llm")
  /\ Conflicts(1) = {} /\ Conflicts(2) # {}
  /\ Len(db) = 1
  /\ db[1].main_cat = session[1].results[1].main_cat
  /\ db[1].main_cat # session[2].results[1].main_cat

(***************************************************************************)
(* Properties of the input section (SpecInput)                             *)
(***************************************************************************)
\* the keywords the running loop was handed, and the input they came from
Handed == run[1].keywords_to_process
Given == input[1].given
LoopStarted == pc[1] = "loop" /\ nruns[1] > 0

\* the keywords are different ones, in the order of their first occurrence
\* in the input (keyword "1" first occurs before "2", and so on), trimmed
DistinctInFirstOccurrenceOrder ==
  /\ Distinct(Handed)
  /\ \A a \in 1..Len(Handed) : a <= Given.count /\ Handed[a] = Numbered(a)

\* C16 as claimed: the loop is handed distinct keywords in the order of their
\* first occurrence and never more than 250 of them, exactly the first 250 for
\* a pasted text with more, and no more than 250 for an uploaded CSV either.
C16_NeverOverLimit ==
  LoopStarted =>
    /\ DistinctInFirstOccurrenceOrder
    /\ Len(Handed) <= PasteLimit
    /\ (Given.family = "pasted" /\ Given.count > PasteLimit) => Len(Handed) = PasteLimit

\* C16 as amended: the loop is handed distinct keywords in the order of their
\* first occurrence; of a pasted text it is handed every unique trimmed
\* non-empty line up to 250 and exactly the first 250 when there are more; of
\* an uploaded CSV it is handed every unique trimmed non-empty value of the
\* keyword column, however many there are.
C16_PasteLimited ==
  LoopStarted =>
    /\ DistinctInFirstOccurrenceOrder
    /\ Given.family = "pasted" =>
         Len(Handed) = (IF Given.count > PasteLimit THEN PasteLimit ELSE Given.count)
    /\ Given.family = "frame" => Len(Handed) = Given.count

\* C16 witness: a pasted text of 252 different keywords among blank and
\* repeated lines was cut to its first 250
C16_Witness ==
  /\ LoopStarted /\ Given.family = "pasted" /\ Given.messy /\ Given.count = PasteLimit + 2
  /\ Len(Handed) = PasteLimit /\ Handed[PasteLimit] = Numbered(PasteLimit)

(***************************************************************************)
(* Properties of the fingerprint (SpecHash)                                *)
(***************************************************************************)
\* C10: in every state of the cache, two calls of the fingerprint return the
\* same digest when their template texts are identical and different digests
\* when the texts differ.
C10_Fingerprint ==
  (api.op = "fingerprint" /\ api.before.op = "fingerprint") =>
    /\ Len(api.ret) = 64
    /\ (api.args = api.before.args) <=> (api.ret = api.before.ret)

\* C10 witness: two templates that differ only in a trailing character were
\* fingerprinted, a record being stored between the two calls
C10_Witness ==
  /\ api.op = "fingerprint" /\ api.before.op = "fingerprint"
  /\ api.before.args = <<<<"a">>>> /\ api.args = <<<<"a", "E9">>>>
  /\ Len(db) = 2

====
